---- MODULE Spec2Model ----
(***************************************************************************)
(* A model of the DialogChain route engine: Route (engine/route.py), the   *)
(* AggregateProcessor (processors/aggregate.py) and DialogChainEngine      *)
(* (engine/core.py).  Every coroutine is cut at its suspension points      *)
(* (await of receive, send, sleep, of a task): one action is one run of a  *)
(* coroutine from one suspension point to the next, as the asyncio event   *)
(* loop schedules it.                                                      *)
(***************************************************************************)
EXTENDS Integers, Sequences, FiniteSets, TLC

VARIABLES
    cfg,        \* per route: the configuration the Route was constructed with
    running,    \* per route: Route._running
    tasks,      \* per route: the supervisor tasks created so far; Route._task is the last
    stopCall,   \* per route: the position of a Route.stop call in flight
    conn,       \* per route: the source and destination connectors
    nextMsg,    \* per route: how many messages the source has yielded
    trace,      \* per route: what the route did to the destination and the handlers
    faults,     \* per route: how many more calls of a connector or processor will raise
    agg,        \* the AggregateProcessor instance: its options and fields
    aggLog,     \* what each flush of the AggregateProcessor did with the items
    now,        \* the clock time.time() and asyncio.sleep read
    eng,        \* the DialogChainEngine: running, its start() and stop() calls
    ext,        \* the ExternalProcessor: its process() calls and the temporary files
    pure        \* a function without state under test: its name, arguments and result

vars == <<cfg, running, tasks, stopCall, conn, nextMsg, trace, faults, agg, aggLog, now,
          eng, ext, pure>>

\* no function under test
NoCall == [f |-> "none"]

(***************************************************************************)
(* Bounds of the model.                                                    *)
(***************************************************************************)
\* messages a source yields before it goes quiet
MaxMsgs == 2
\* Route.start calls that create a supervisor, per route
MaxStarts == 2
\* RouteConfig.retry_attempts of the modelled routes
RetryAttempts == 1
\* max_attempts of a retry handler: handler.get('max_attempts', 3)
HandlerMaxAttempts == 3
\* calls of a connector or processor of one route that raise or time out
MaxFaults == 2
\* DialogChainEngine.start calls that start the routes
MaxEngineStarts == 2

AllRoutes == {1, 2}
\* the route of the single-route specifications
SoloRoutes == {1}

None == <<>>

(***************************************************************************)
(* Connectors.  connectors/base.py is not part of the source tree at hand; *)
(* the lifecycle is modelled from the specification: open establishes the  *)
(* connection, close is idempotent, and the context manager opens on entry *)
(* and closes on exit.  opens counts the opens that established a          *)
(* connection, closes the closes that released one, raised the close calls *)
(* that raised.                                                            *)
(***************************************************************************)

ConnInit == [open |-> FALSE, opens |-> 0, closes |-> 0, raised |-> 0]

ConnOpen(c) ==
    IF c.open THEN c ELSE [c EXCEPT !.open = TRUE, !.opens = @ + 1]

ConnClose(c) ==
    IF c.open THEN [c EXCEPT !.open = FALSE, !.closes = @ + 1] ELSE c

\* a close call that raises before the connection was released
ConnCloseFailed(c) == [c EXCEPT !.raised = @ + 1]

\* a close call that raises after the connection was released
ConnCloseReleased(c) == [ConnClose(c) EXCEPT !.raised = @ + 1]

\* a close call that never returns: it is counted with the calls that raised
ConnCloseHung(c) == [c EXCEPT !.raised = @ + 1]

\* the outcomes of one close call, f more calls being left to fail: a close of
\* an open connector may raise, before or after the connection was released,
\* or never return
CloseOutcomes(c, f) ==
    { [c |-> ConnClose(c), ok |-> TRUE, hung |-> FALSE, f |-> f] } \cup
    (IF c.open /\ f > 0
     THEN { [c |-> ConnCloseFailed(c), ok |-> FALSE, hung |-> FALSE, f |-> f - 1],
            [c |-> ConnCloseReleased(c), ok |-> FALSE, hung |-> FALSE, f |-> f - 1],
            [c |-> ConnCloseHung(c), ok |-> FALSE, hung |-> TRUE, f |-> f - 1] }
     ELSE {})

(***************************************************************************)
(* AggregateProcessor (processors/aggregate.py).  The operators work on    *)
(* the record of the processor's fields: buffer, last (_last_flush_time),  *)
(* ft (_flush_task: "none", "pending" while the timer task sleeps, "done"  *)
(* once it ran to its end), due (when the sleep of the timer task ends),   *)
(* and on the options strategy, timeout, max_size and cb (_flush_callback: *)
(* "none", "sync" for a callback that never suspends, "async" for one that *)
(* awaits).                                                                *)
(***************************************************************************)
\* the timeout option, in ticks of the clock
AggTimeout == 2
\* the largest max_size option of the modelled processors
MaxAggSize == 2
\* the last tick of the clock
MaxTime == 4

Strategies == {"collect", "sum", "average", "count"}

AggNew(strategy, maxSize, cb) ==
    [strategy |-> strategy, timeout |-> AggTimeout, max_size |-> maxSize, cb |-> cb,
     buffer |-> <<>>, last |-> 0, ft |-> "none", due |-> 0]

RECURSIVE SeqSum(_)
SeqSum(q) == IF q = <<>> THEN 0 ELSE Head(q) + SeqSum(Tail(q))

\* _apply_strategy on a non-empty buffer of numbers.  "collect" returns the list
\* itself, rendered here by its length and sum with the items kept beside it;
\* "average" returns v / n
_apply_strategy(strategy, buffer) ==
    CASE strategy = "collect" -> [kind |-> "list", n |-> Len(buffer), v |-> SeqSum(buffer)]
      [] strategy = "sum" -> [kind |-> "sum", n |-> Len(buffer), v |-> SeqSum(buffer)]
      [] strategy = "average" -> [kind |-> "average", n |-> Len(buffer), v |-> SeqSum(buffer)]
      [] strategy = "count" -> [kind |-> "count", n |-> Len(buffer), v |-> Len(buffer)]

\* what becomes of the callback awaited in _flush: the timer task has just
\* cancelled itself, so a callback that suspends is cut at its first await
CallbackOutcome(cb, via) ==
    CASE cb = "none" -> "none"
      [] cb = "sync" -> "done"
      [] cb = "async" -> IF via = "timer" THEN "aborted" ELSE "done"

\* _flush without its buffer.clear()
KeptBuffer(buffer) == buffer

\* buffer.clear() of _flush
ClearedBuffer(buffer) == <<>>

\* _flush called at time t from "process", "timer" or "close".  flushed tells
\* whether a result was computed; res is the value _flush returns
_flush(a, al, t, via) ==
    IF a.buffer = <<>>
    THEN [a |-> a, al |-> al, flushed |-> FALSE, items |-> <<>>]
    ELSE [a |-> [a EXCEPT !.ft = IF @ = "pending" THEN "none" ELSE @,
                          !.buffer = ClearedBuffer(@),
                          !.last = t],
          al |-> Append(al, [via |-> via, items |-> a.buffer,
                             res |-> _apply_strategy(a.strategy, a.buffer),
                             cb |-> CallbackOutcome(a.cb, via),
                             returned |-> (via = "process")]),
          flushed |-> TRUE, items |-> a.buffer]

\* AggregateProcessor.process(message) at time t
AggProcess(a, al, m, t) ==
    LET a1 == [a EXCEPT !.buffer = Append(@, m)] IN
    IF Len(a1.buffer) >= a1.max_size
    THEN _flush(a1, al, t, "process")
    ELSE IF a1.last > 0 /\ t - a1.last >= a1.timeout
    THEN _flush(a1, al, t, "process")
    ELSE IF a1.last = 0
    THEN [a |-> [a1 EXCEPT !.last = t, !.ft = "pending", !.due = t + a1.timeout],
          al |-> al, flushed |-> FALSE, items |-> <<>>]
    ELSE [a |-> a1, al |-> al, flushed |-> FALSE, items |-> <<>>]

\* AggregateProcessor.close() at time t: the result of _flush is dropped
AggClose(a, al, t) ==
    LET q == IF a.buffer # <<>> THEN _flush(a, al, t, "close")
             ELSE [a |-> a, al |-> al, flushed |-> FALSE, items |-> <<>>] IN
    [q EXCEPT !.a.ft = IF @ = "pending" THEN "done" ELSE @]

\* _flush_later once its sleep is over: the result of _flush is dropped
AggFlushLater(a, al, t) ==
    LET q == _flush(a, al, t, "timer") IN
    [q EXCEPT !.a.ft = IF q.flushed THEN @ ELSE "done"]

(***************************************************************************)
(* Supervisor tasks (asyncio tasks running Route._run_loop).               *)
(***************************************************************************)
\* no message: the None of "data", and of the message parameter of _handle_error
NoMsg == 0

NewTask ==
    [pc |-> "created", cancel |-> FALSE, outcome |-> "none", cause |-> "none",
     att |-> 0, data |-> NoMsg, cur |-> None,
     hidx |-> 0, hatt |-> 0, hmsg |-> NoMsg, handled |-> FALSE]

\* Route._task: the index of the last task created, 0 for None
CurTask(r) == Len(tasks[r])

TaskDone(r, t) == tasks[r][t].pc = "done"

Live(r) == { t \in 1..Len(tasks[r]) : ~TaskDone(r, t) }

\* the part of the state one supervisor step reads and writes
Local(r, t) ==
    [tk |-> tasks[r][t], conn |-> conn[r], tr |-> trace[r], nx |-> nextMsg[r],
     fl |-> faults[r], ag |-> agg, al |-> aggLog]

Commit(r, t, s) ==
    /\ tasks' = [tasks EXCEPT ![r][t] = s.tk]
    /\ conn' = [conn EXCEPT ![r] = s.conn]
    /\ trace' = [trace EXCEPT ![r] = s.tr]
    /\ nextMsg' = [nextMsg EXCEPT ![r] = s.nx]
    /\ faults' = [faults EXCEPT ![r] = s.fl]
    /\ agg' = s.ag
    /\ aggLog' = s.al

Event(ev, p, info) == [ev |-> ev, p |-> p, info |-> info]

Log(s, e) == [s EXCEPT !.tr = Append(@, e)]

\* the task ends: asyncio records the outcome, the coroutine's locals are gone
Finish(s, outcome, cause) ==
    [s EXCEPT !.tk = [NewTask EXCEPT !.pc = "done", !.outcome = outcome,
                                     !.cause = cause]]

\* the source used without "async with": nothing closes it when the task ends
ExitWith_leak(s, outcome) == { Finish(s, outcome, "none") }

\* leaving "async with self.source": __aexit__ closes the source; a close that
\* raises replaces the exception in flight and ends the task with an error, a
\* close that never returns keeps the task in __aexit__ ("closing")
ExitWith(s, outcome) ==
    { IF o.ok
      THEN Finish([s EXCEPT !.conn.src = o.c], outcome, "none")
      ELSE IF o.hung
      THEN [s EXCEPT !.conn.src = o.c, !.fl = o.f, !.tk.pc = "closing"]
      ELSE Finish([s EXCEPT !.conn.src = o.c, !.fl = o.f], "error", "close")
      : o \in CloseOutcomes(s.conn.src, s.fl) }

\* "while self._running": the next receive, or the end of the loop
LoopHead(r, s) ==
    IF running[r]
    THEN { [s EXCEPT !.tk = [NewTask EXCEPT !.pc = "recv"]] }
    ELSE ExitWith(s, "returned")

(***************************************************************************)
(* Route.process: the processor chain on message m.  A chain of kind       *)
(* "plain" stands for stateless processors (transform, filter, debug),     *)
(* which pass the message, drop it (None) or raise; a chain of kind "agg"  *)
(* is the AggregateProcessor alone; a chain of kind "ext" is an            *)
(* ExternalProcessor alone, its call taken as a whole (an "extfail" event  *)
(* of the trace is its logger.error for a failed command).  A payload is the sequence of the      *)
(* received messages the chain's output was built from.                    *)
(***************************************************************************)

\* what ExternalProcessor.process returns for an exit of the command, or for
\* the timeout of wait_for: the parsed output, the raw output, or None
ExitResult(x) ==
    CASE x = "json" -> "parsed"
      [] x = "text" -> "raw"
      [] OTHER -> "drop"

ChainOutcomes(r, s, m) ==
    IF cfg[r].chain = "plain"
    THEN { [s |-> s, res |-> <<m>>, raised |-> FALSE],
           [s |-> s, res |-> None, raised |-> FALSE] } \cup
         (IF s.fl > 0
          THEN { [s |-> [s EXCEPT !.fl = @ - 1], res |-> None, raised |-> TRUE] }
          ELSE {})
    ELSE IF cfg[r].chain = "ext"
    THEN { [s |-> IF x \in {"nonzero", "timeout"} THEN Log(s, Event("extfail", <<m>>, x)) ELSE s,
            res |-> IF ExitResult(x) = "drop" THEN None ELSE <<m>>,
            raised |-> FALSE]
           : x \in {"json", "text", "empty", "nonzero"} \cup {"timeout"} }
    ELSE LET q == AggProcess(s.ag, s.al, m, now) IN
         { [s |-> [s EXCEPT !.ag = q.a, !.al = q.al],
            res |-> q.items, raised |-> FALSE] }

(***************************************************************************)
(* Route._handle_error.  The loop calls it as _handle_error(e): the        *)
(* message parameter keeps its default, None.                              *)
(***************************************************************************)

\* one attempt of a retry handler, up to its suspension point: with a message,
\* the chain and then the await of destination.send; without, the sleep
RetryAttempt(r, s, i, k) ==
    LET s1 == [s EXCEPT !.tk.hidx = i, !.tk.hatt = k]
        asleep(x) == [x EXCEPT !.tk.pc = "hsleep"] IN
    IF s1.tk.hmsg = NoMsg
    THEN { asleep(s1) }
    ELSE { IF o.raised \/ o.res = None
           THEN asleep(o.s)
           ELSE Log([o.s EXCEPT !.tk.pc = "hsend", !.tk.cur = o.res],
                    Event("send", o.res, "handler"))
           : o \in ChainOutcomes(r, s1, s1.tk.hmsg) }

\* the handlers from index i on, up to the next suspension point or to the end
\* of the list and back to the loop
RECURSIVE RunHandlers(_, _, _)
RunHandlers(r, s, i) ==
    IF i > Len(cfg[r].handlers)
    THEN LoopHead(r, Log(s, Event("handled", s.tk.cur,
                                  IF s.tk.handled THEN "yes" ELSE "no")))
    ELSE LET h == cfg[r].handlers[i] IN
         CASE h = "log" -> RunHandlers(r, [s EXCEPT !.tk.handled = TRUE], i + 1)
           [] h = "fallback" -> RunHandlers(r, [s EXCEPT !.tk.handled = TRUE], i + 1)
           [] h = "retry" ->
                IF HandlerMaxAttempts = 0
                THEN RunHandlers(r, s, i + 1)
                ELSE RetryAttempt(r, s, i, 1)

\* the loop without its "except Exception": the error ends the supervisor
HandleError_reraise(r, s, kind) ==
    { Finish(Log(s, Event("err", s.tk.cur, kind)), "error", "iteration") }

\* "except Exception as e: await self._handle_error(e)" of the loop
HandleError(r, s, kind) ==
    RunHandlers(r, Log([s EXCEPT !.tk.handled = FALSE,
                                 !.tk.hmsg = NoMsg],
                       Event("err", s.tk.cur, kind)), 1)

\* the comparison off by one: one attempt more
LastAttempt_late(attempt, retry_attempts) == attempt = retry_attempts + 1

\* "if attempt == self.retry_attempts: raise" of _safe_receive and _safe_send
LastAttempt(attempt, retry_attempts) == attempt = retry_attempts

(***************************************************************************)
(* Route._run_loop, one action per resumption of the supervisor task.  A   *)
(* task whose cancellation was requested resumes with CancelledError and   *)
(* takes no other step.                                                    *)
(***************************************************************************)
Resumable(r, t, pc) ==
    /\ t \in 1..Len(tasks[r])
    /\ tasks[r][t].pc = pc
    /\ ~tasks[r][t].cancel

\* first step: "async with self.source" opens the source; __aenter__ may raise
SupOpen(r, t) ==
    /\ Resumable(r, t, "created")
    /\ \E ok \in (IF faults[r] > 0 THEN BOOLEAN ELSE {TRUE}) :
         \E s2 \in IF ok
                   THEN LoopHead(r, [Local(r, t) EXCEPT !.conn.src = ConnOpen(@)])
                   ELSE { Finish([Local(r, t) EXCEPT !.fl = @ - 1], "error", "open") } :
            Commit(r, t, s2)
    /\ UNCHANGED <<cfg, running, stopCall, now, eng, ext, pure>>

\* _safe_receive returns a message: the chain runs, and the send is awaited
SupReceiveMsg(r, t) ==
    /\ Resumable(r, t, "recv")
    /\ nextMsg[r] < cfg[r].feed
    /\ LET m == nextMsg[r] + 1
           s0 == [Local(r, t) EXCEPT !.nx = m, !.tk.data = m] IN
       \E o \in ChainOutcomes(r, s0, m) :
         \E s2 \in IF o.raised THEN HandleError(r, o.s, "proc")
                   ELSE IF o.res = None THEN LoopHead(r, o.s)
                   ELSE { Log([o.s EXCEPT !.tk.pc = "send", !.tk.att = 0,
                                          !.tk.cur = o.res],
                              Event("send", o.res, "loop")) } :
            Commit(r, t, s2)
    /\ UNCHANGED <<cfg, running, stopCall, now, eng, ext, pure>>

\* source.receive() returns None: "continue"
SupReceiveNone(r, t) ==
    /\ Resumable(r, t, "recv")
    /\ \E s2 \in LoopHead(r, Local(r, t)) : Commit(r, t, s2)
    /\ UNCHANGED <<cfg, running, stopCall, now, eng, ext, pure>>

\* source.receive() raises or times out: sleep and retry, or re-raise
SupReceiveFail(r, t) ==
    /\ Resumable(r, t, "recv")
    /\ faults[r] > 0
    /\ LET s1 == [Local(r, t) EXCEPT !.fl = @ - 1] IN
       \E s2 \in IF LastAttempt(tasks[r][t].att, cfg[r].retry_attempts)
                 THEN HandleError(r, s1, "recv")
                 ELSE { [s1 EXCEPT !.tk.pc = "recvSleep"] } :
         Commit(r, t, s2)
    /\ UNCHANGED <<cfg, running, stopCall, now, eng, ext, pure>>

\* the sleep of _safe_receive is over: the next attempt
SupReceiveWake(r, t) ==
    /\ Resumable(r, t, "recvSleep")
    /\ Commit(r, t, [Local(r, t) EXCEPT !.tk.pc = "recv", !.tk.att = @ + 1])
    /\ UNCHANGED <<cfg, running, stopCall, now, eng, ext, pure>>

\* destination.send returns: _safe_send returns, or the retry handler returns True
SupSendOk(r, t) ==
    /\ t \in 1..Len(tasks[r])
    /\ tasks[r][t].pc \in {"send", "hsend"}
    /\ ~tasks[r][t].cancel
    /\ LET s1 == Log(Local(r, t), Event("ok", tasks[r][t].cur, "")) IN
       \E s2 \in IF tasks[r][t].pc = "send"
                 THEN LoopHead(r, s1)
                 ELSE LoopHead(r, Log(s1, Event("handled", s1.tk.cur, "yes"))) :
         Commit(r, t, s2)
    /\ UNCHANGED <<cfg, running, stopCall, now, eng, ext, pure>>

\* destination.send raises or times out: sleep and retry, or re-raise
SupSendFail(r, t) ==
    /\ t \in 1..Len(tasks[r])
    /\ tasks[r][t].pc \in {"send", "hsend"}
    /\ ~tasks[r][t].cancel
    /\ faults[r] > 0
    /\ LET s1 == Log([Local(r, t) EXCEPT !.fl = @ - 1],
                     Event("fail", tasks[r][t].cur, "")) IN
       \E s2 \in IF tasks[r][t].pc = "hsend"
                 THEN { [s1 EXCEPT !.tk.pc = "hsleep"] }
                 ELSE IF LastAttempt(tasks[r][t].att, cfg[r].retry_attempts)
                 THEN HandleError(r, s1, "send")
                 ELSE { Log([s1 EXCEPT !.tk.pc = "sendSleep"],
                            Event("sleep", s1.tk.cur, "")) } :
         Commit(r, t, s2)
    /\ UNCHANGED <<cfg, running, stopCall, now, eng, ext, pure>>

\* the sleep of _safe_send is over: the next attempt
SupSendWake(r, t) ==
    /\ Resumable(r, t, "sendSleep")
    /\ Commit(r, t, Log([Local(r, t) EXCEPT !.tk.pc = "send", !.tk.att = @ + 1],
                        Event("send", tasks[r][t].cur, "loop")))
    /\ UNCHANGED <<cfg, running, stopCall, now, eng, ext, pure>>

\* the sleep of a retry handler is over: its next attempt, or the next handler
SupHandlerWake(r, t) ==
    /\ Resumable(r, t, "hsleep")
    /\ \E s2 \in IF tasks[r][t].hatt < HandlerMaxAttempts
                 THEN RetryAttempt(r, Local(r, t), tasks[r][t].hidx,
                                   tasks[r][t].hatt + 1)
                 ELSE RunHandlers(r, Local(r, t), tasks[r][t].hidx + 1) :
         Commit(r, t, s2)
    /\ UNCHANGED <<cfg, running, stopCall, now, eng, ext, pure>>

\* CancelledError caught as an error of the iteration ("except Exception" where
\* CancelledError is an Exception)
Cancelled_as_error(r, s) == HandleError(r, s, "cancel")

\* CancelledError raised at the await the task is suspended in: "except
\* asyncio.CancelledError: raise" and "except Exception" let it through, the
\* task leaves "async with" (closing the source) and ends cancelled; a task
\* that never ran ends at once
Cancelled(r, s) ==
    IF s.tk.pc = "created"
    THEN { Finish(s, "cancelled", "none") }
    ELSE ExitWith(s, "cancelled")

\* the task resumes after its cancellation was requested
SupCancelled(r, t) ==
    /\ t \in 1..Len(tasks[r])
    /\ tasks[r][t].pc \notin {"done", "closing"}
    /\ tasks[r][t].cancel
    /\ \E s2 \in Cancelled(r, Local(r, t)) : Commit(r, t, s2)
    /\ UNCHANGED <<cfg, running, stopCall, now, eng, ext, pure>>

(***************************************************************************)
(* Route.start and Route.stop.  Neither start() nor the first part of       *)
(* stop() suspends, so a caller that awaits them runs them within its own   *)
(* step: they are functions on st, the running flags, tasks and stop calls  *)
(* of all routes.                                                          *)
(***************************************************************************)
RouteState == [running |-> running, tasks |-> tasks, stopCall |-> stopCall]

SetRouteState(st) ==
    /\ running' = st.running
    /\ tasks' = st.tasks
    /\ stopCall' = st.stopCall

\* start() without "if self._running: return"
Route_start_unguarded(r, st) ==
    [st EXCEPT !.running[r] = TRUE, !.tasks[r] = Append(@, NewTask)]

\* Route.start()
Route_start_call(r, st) ==
    IF st.running[r]
    THEN st
    ELSE [st EXCEPT !.running[r] = TRUE, !.tasks[r] = Append(@, NewTask)]

\* the stop call slot of a route: no call in flight, the last one returned res
StopReturned(res) == [pc |-> "idle", t |-> 0, res |-> res]

\* stop() past its guard without "self._task.cancel()" and "await self._task"
Route_stop_no_cancel(r, st) ==
    [st EXCEPT !.running[r] = FALSE,
               !.stopCall[r] = [pc |-> "disc", t |-> 0, res |-> "none"]]

\* what stop() does past its guard, up to "await self._task" or to the
\* disconnects
Route_stop_proceed(r, st) ==
    LET t == Len(st.tasks[r]) IN
    IF t > 0 /\ st.tasks[r][t].pc # "done"
    THEN [st EXCEPT !.running[r] = FALSE,
                    !.tasks[r][t].cancel = TRUE,
                    !.stopCall[r] = [pc |-> "await", t |-> t, res |-> "none"]]
    ELSE [st EXCEPT !.running[r] = FALSE,
                    !.stopCall[r] = [pc |-> "disc", t |-> 0, res |-> "none"]]

\* stop() without "if not self._running: return"
Route_stop_unguarded(r, st) == Route_stop_proceed(r, st)

\* Route.stop() up to its first suspension
Route_stop_call(r, st) ==
    IF ~st.running[r]
    THEN IF st.stopCall[r].pc = "idle"
         THEN [st EXCEPT !.stopCall[r] = StopReturned("noop")]
         ELSE st
    ELSE Route_stop_proceed(r, st)

\* a direct call of route.start()
Route_start(r) ==
    /\ Len(tasks[r]) < MaxStarts
    /\ SetRouteState(Route_start_call(r, RouteState))
    /\ UNCHANGED <<cfg, conn, nextMsg, trace, faults, agg, aggLog, now, eng, ext, pure>>

\* a direct call of route.stop(); one call past the guard is in flight at a time
Route_stop_begin(r) ==
    /\ stopCall[r].pc = "idle" \/ ~running[r]
    /\ SetRouteState(Route_stop_call(r, RouteState))
    /\ UNCHANGED <<cfg, conn, nextMsg, trace, faults, agg, aggLog, now, eng, ext, pure>>

\* "await self._task" returns or raises: CancelledError is caught, any other
\* exception of the task leaves stop()
Route_stop_await(r) ==
    /\ stopCall[r].pc = "await"
    /\ TaskDone(r, stopCall[r].t)
    /\ stopCall' = [stopCall EXCEPT ![r] =
                      IF tasks[r][stopCall[r].t].outcome = "error"
                      THEN StopReturned("raised")
                      ELSE [pc |-> "disc", t |-> 0, res |-> "none"]]
    /\ UNCHANGED <<cfg, running, tasks, conn, nextMsg, trace, faults, agg, aggLog, now, eng, ext, pure>>

\* source.disconnect() and destination.disconnect(), each in its own try and
\* awaited without a timeout: a disconnect that never returns keeps stop() in
\* it ("hung")
Route_stop_disconnect(r) ==
    /\ stopCall[r].pc = "disc"
    /\ \E a \in CloseOutcomes(conn[r].src, faults[r]) :
         \E b \in (IF a.hung THEN { [c |-> conn[r].dst, ok |-> TRUE, hung |-> TRUE, f |-> a.f] }
                   ELSE CloseOutcomes(conn[r].dst, a.f)) :
            /\ conn' = [conn EXCEPT ![r] = [src |-> a.c, dst |-> b.c]]
            /\ faults' = [faults EXCEPT ![r] = b.f]
            /\ stopCall' = [stopCall EXCEPT ![r] =
                              IF b.hung THEN [pc |-> "hung", t |-> 0, res |-> "none"]
                              ELSE StopReturned("ok")]
    /\ UNCHANGED <<cfg, running, tasks, nextMsg, trace, agg, aggLog, now, eng, ext, pure>>

(***************************************************************************)
(* DialogChainEngine (engine/core.py).  main is the position of start():    *)
(* "none", "sleep" in its "while self.running" loop, "done"; stopIdx is the *)
(* route whose stop() the stop() call in flight awaits, 0 for none; res is  *)
(* what the last stop() call to return did.  stopIdx is a position in      *)
(* engine.routes.                                                           *)
(***************************************************************************)
EngInit == [running |-> FALSE, starts |-> 0, main |-> "none", stopIdx |-> 0, res |-> "none"]

\* a route that fails to build makes the engine's construction fail
_load_routes_fatal(c) ==
    IF \A r \in AllRoutes : c[r].valid THEN <<1, 2>> ELSE <<>>

\* _load_routes: Route.from_config on every entry of the list, each in its own
\* try; an entry that raises is logged and left out.  The entry's "enabled"
\* is read into the RouteConfig and not looked at again
_load_routes(c) == SelectSeq(<<1, 2>>, LAMBDA r : c[r].valid)

\* engine.routes
EngineRoutes == _load_routes(cfg)

\* the routes the engine holds
LoadedRoutes == { EngineRoutes[i] : i \in 1..Len(EngineRoutes) }

\* "for route in self.routes: await route.start()" from position i on
RECURSIVE StartRoutes(_, _)
StartRoutes(i, st) ==
    IF i > Len(EngineRoutes) THEN st ELSE StartRoutes(i + 1, Route_start_call(EngineRoutes[i], st))

\* "for route in self.routes: await route.stop()" from position i on, up to
\* the first stop() that suspends: idx is its position, 0 once the loop is over
RECURSIVE StopRoutes(_, _)
StopRoutes(i, st) ==
    IF i > Len(EngineRoutes)
    THEN [st |-> st, idx |-> 0]
    ELSE IF ~st.running[EngineRoutes[i]]
    THEN StopRoutes(i + 1, Route_stop_call(EngineRoutes[i], st))
    ELSE [st |-> Route_stop_call(EngineRoutes[i], st), idx |-> i]

\* DialogChainEngine.stop() up to its first suspension
Engine_stop_call(e, st) ==
    IF ~e.running
    THEN [e |-> IF e.stopIdx = 0 THEN [e EXCEPT !.res = "noop"] ELSE e, st |-> st]
    ELSE LET q == StopRoutes(1, st) IN
         [e |-> [e EXCEPT !.running = FALSE, !.stopIdx = q.idx,
                          !.res = IF q.idx = 0 THEN "ok" ELSE "none"],
          st |-> q.st]

\* no stop call is past its guard and still in flight
NoStopInFlight ==
    /\ eng.stopIdx = 0
    /\ \A r \in AllRoutes : stopCall[r].pc = "idle"

\* engine.start() up to its first sleep; a start is modelled only while no
\* other start() or stop() call is in flight
Engine_start ==
    /\ IF eng.running
       THEN UNCHANGED <<eng, running, tasks, stopCall>>
       ELSE /\ eng.starts < MaxEngineStarts
            /\ eng.main # "sleep"
            /\ NoStopInFlight
            /\ \A r \in AllRoutes : Len(tasks[r]) < MaxStarts
            /\ eng' = [eng EXCEPT !.running = TRUE, !.starts = @ + 1,
                                  !.main = "sleep", !.res = "none"]
            /\ SetRouteState(StartRoutes(1, RouteState))
    /\ UNCHANGED <<cfg, conn, nextMsg, trace, faults, agg, aggLog, now, ext, pure>>

\* the sleep of start() is over: "while self.running", and past the loop
\* "finally: await self.stop()", which returns at its guard
Engine_start_wake ==
    /\ eng.main = "sleep"
    /\ eng' = IF eng.running THEN eng ELSE Engine_stop_call([eng EXCEPT !.main = "done"],
                                                            RouteState).e
    /\ UNCHANGED <<cfg, running, tasks, stopCall, conn, nextMsg, trace, faults,
                   agg, aggLog, now, ext, pure>>

\* a call of engine.stop(): by _handle_shutdown, or by the caller
Engine_stop ==
    /\ ~eng.running \/ eng.stopIdx = 0
    /\ LET q == Engine_stop_call(eng, RouteState) IN
         /\ eng' = q.e
         /\ SetRouteState(q.st)
    /\ UNCHANGED <<cfg, conn, nextMsg, trace, faults, agg, aggLog, now, ext, pure>>

\* the route.stop() that engine.stop() awaits has returned or raised (the
\* exception is logged): the routes after it
Engine_stop_next ==
    /\ eng.stopIdx > 0
    /\ stopCall[EngineRoutes[eng.stopIdx]].pc = "idle"
    /\ LET q == StopRoutes(eng.stopIdx + 1, RouteState) IN
         /\ eng' = [eng EXCEPT !.stopIdx = q.idx,
                               !.res = IF q.idx = 0 THEN "ok" ELSE "none"]
         /\ SetRouteState(q.st)
    /\ UNCHANGED <<cfg, conn, nextMsg, trace, faults, agg, aggLog, now, ext, pure>>

\* calls of engine.process_message per route
MaxProcessCalls == 2

\* engine.process_message(route_name, message): the route is looked up by
\* name among engine.routes (ValueError when it is not there) and the call
\* returns "await route.process(message)": the chain's output, None when a
\* processor dropped the message, or the exception a processor raised
Engine_process_message(r, m) ==
    /\ Len(trace[r]) < MaxProcessCalls
    /\ IF r \notin LoadedRoutes
       THEN /\ trace' = [trace EXCEPT ![r] = Append(@, Event("raised", None, "not found"))]
            /\ UNCHANGED <<faults, agg, aggLog>>
       ELSE \E o \in ChainOutcomes(r, [fl |-> faults[r], ag |-> agg, al |-> aggLog], m) :
              /\ trace' = [trace EXCEPT ![r] =
                             Append(@, Event(IF o.raised THEN "raised" ELSE "returned",
                                             o.res, "process_message"))]
              /\ faults' = [faults EXCEPT ![r] = o.s.fl]
              /\ agg' = o.s.ag
              /\ aggLog' = o.s.al
    /\ UNCHANGED <<cfg, running, tasks, stopCall, conn, nextMsg, now, eng, ext, pure>>

(***************************************************************************)
(* The AggregateProcessor driven on its own, and the clock.                 *)
(***************************************************************************)
\* messages fed to a processor driven on its own
MaxItems == 3

\* a call of process(message)
Agg_process ==
    /\ nextMsg[1] < MaxItems
    /\ LET q == AggProcess(agg, aggLog, nextMsg[1] + 1, now) IN
         /\ agg' = q.a
         /\ aggLog' = q.al
    /\ nextMsg' = [nextMsg EXCEPT ![1] = @ + 1]
    /\ UNCHANGED <<cfg, running, tasks, stopCall, conn, trace, faults, now, eng, ext, pure>>

\* the sleep of the timer task _flush_later is over
Agg_flush_later ==
    /\ agg.ft = "pending"
    /\ now >= agg.due
    /\ LET q == AggFlushLater(agg, aggLog, now) IN
         /\ agg' = q.a
         /\ aggLog' = q.al
    /\ UNCHANGED <<cfg, running, tasks, stopCall, conn, nextMsg, trace, faults, now, eng, ext, pure>>

\* a call of close()
Agg_close ==
    /\ LET q == AggClose(agg, aggLog, now) IN
         /\ agg' = q.a
         /\ aggLog' = q.al
    /\ UNCHANGED <<cfg, running, tasks, stopCall, conn, nextMsg, trace, faults, now, eng, ext, pure>>

Clock_tick ==
    /\ now < MaxTime
    /\ now' = now + 1
    /\ UNCHANGED <<cfg, running, tasks, stopCall, conn, nextMsg, trace, faults,
                   agg, aggLog, eng, ext, pure>>

(***************************************************************************)
(* ExternalProcessor.process (processors/external.py).  One call is cut at *)
(* its awaits: create_subprocess_shell ("spawn"), communicate under        *)
(* wait_for ("comm") and process.wait after a kill ("reap").  Calls may    *)
(* overlap: Engine.process_message can be called while a route runs.       *)
(***************************************************************************)
\* calls of process on one ExternalProcessor
MaxCalls == 2

ExtInit == [calls |-> <<>>, files |-> {}]

\* the locals of a call that has reached its first await; file is the name
\* NamedTemporaryFile gave the temporary file, unique per call
ExtCall(m, f) ==
    [pc |-> "spawn", msg |-> m, file |-> f, child |-> "none", cancel |-> FALSE,
     result |-> "none"]

\* "finally: os.unlink(tmp_file_path)", then the call ends with this result
ExtReturn(e, i, res, child) ==
    [e EXCEPT !.files = @ \ {e.calls[i].file},
              !.calls[i].pc = "done", !.calls[i].result = res,
              !.calls[i].child = child]

\* the other variables of a step of the ExternalProcessor
ExtStep(e) ==
    /\ ext' = e
    /\ UNCHANGED <<cfg, running, tasks, stopCall, conn, nextMsg, trace, faults, agg,
                   aggLog, now, eng, pure>>

\* process(message) up to its first await: the temporary file is created with
\* delete=False and the message dumped into it inside the "with" block; when
\* json.dump raises, the block closes the file and the outer "except
\* Exception" returns None, the inner try/finally never having been entered
Ext_process(m) ==
    /\ Len(ext.calls) < MaxCalls
    /\ LET f == Len(ext.calls) + 1 IN
       ExtStep([calls |-> Append(ext.calls,
                           IF m = "unserializable"
                           THEN [ExtCall(m, f) EXCEPT !.pc = "done", !.result = "drop"]
                           ELSE ExtCall(m, f)),
                files |-> ext.files \cup {f}])

\* create_subprocess_shell returns the child, or raises
Ext_spawn(i) ==
    /\ i \in 1..Len(ext.calls)
    /\ ext.calls[i].pc = "spawn" /\ ~ext.calls[i].cancel
    /\ \E ok \in BOOLEAN :
         ExtStep(IF ok
                 THEN [ext EXCEPT !.calls[i].pc = "comm", !.calls[i].child = "running"]
                 ELSE ExtReturn(ext, i, "drop", "none"))

\* communicate returns within the timeout: the child has exited
Ext_exit(i) ==
    /\ i \in 1..Len(ext.calls)
    /\ ext.calls[i].pc = "comm" /\ ~ext.calls[i].cancel
    /\ \E x \in {"json", "text", "empty", "nonzero"} :
         ExtStep(ExtReturn(ext, i, ExitResult(x), "exited"))

\* wait_for raises TimeoutError: process.kill(), then "await process.wait()"
Ext_timeout(i) ==
    /\ i \in 1..Len(ext.calls)
    /\ ext.calls[i].pc = "comm" /\ ~ext.calls[i].cancel
    /\ ExtStep([ext EXCEPT !.calls[i].pc = "reap", !.calls[i].child = "killed"])

\* process.wait() returns: the killed child is reaped, process returns None
Ext_reaped(i) ==
    /\ i \in 1..Len(ext.calls)
    /\ ext.calls[i].pc = "reap" /\ ~ext.calls[i].cancel
    /\ ExtStep(ExtReturn(ext, i, ExitResult("timeout"), "reaped"))

\* the task that runs the call is cancelled while the call is suspended
Ext_cancel(i) ==
    /\ i \in 1..Len(ext.calls)
    /\ ext.calls[i].pc \in {"spawn", "comm", "reap"} /\ ~ext.calls[i].cancel
    /\ ExtStep([ext EXCEPT !.calls[i].cancel = TRUE])

\* the call resumes with CancelledError: the "finally" removes the file, no
\* "except" clause catches the error, the child is left as it was
Ext_cancelled(i) ==
    /\ i \in 1..Len(ext.calls)
    /\ ext.calls[i].pc \in {"spawn", "comm", "reap"} /\ ext.calls[i].cancel
    /\ ExtStep(ExtReturn(ext, i, "cancelled", ext.calls[i].child))

(***************************************************************************)
(* FilterProcessor (processors/filter.py).  Numbers are counted in tenths: *)
(* 5 stands for 0.5.  A Python value is a record of its kind and, for a    *)
(* number, a boolean or a string that spells a number, its value.          *)
(***************************************************************************)
PyVal(kind, v) == [kind |-> kind, v |-> v]

\* values a message may carry in its "confidence" field: integers, one of
\* them too large for a float (10**400), floats, nan and the infinities,
\* booleans, strings that spell a number and one that does not, a list, None
Confidences ==
    { PyVal("int", n) : n \in {-10, 0, 10} } \cup
    { PyVal("float", n) : n \in {-5, 2, 5, 7, 9, 15} } \cup
    { PyVal("bool", n) : n \in {0, 10} } \cup
    { PyVal("numstr", n) : n \in {2, 9} } \cup
    { PyVal(k, 0) : k \in {"hugeint", "nan", "inf", "neginf", "str", "list", "none"} }

\* messages: records with or without the field, and values that are no record
FilterMessages ==
    { [kind |-> "dict", has |-> TRUE, conf |-> x] : x \in Confidences } \cup
    { [kind |-> k, has |-> FALSE, conf |-> PyVal("none", 0)] : k \in {"dict", "str", "list"} }

\* float(x): the float, or the exception raised
PyFloat(x) ==
    CASE x.kind \in {"int", "float", "bool", "numstr"} -> [raised |-> "none", kind |-> "num", v |-> x.v]
      [] x.kind \in {"nan", "inf", "neginf"} -> [raised |-> "none", kind |-> x.kind, v |-> 0]
      [] x.kind = "hugeint" -> [raised |-> "OverflowError", kind |-> "none", v |-> 0]
      [] x.kind = "str" -> [raised |-> "ValueError", kind |-> "none", v |-> 0]
      [] OTHER -> [raised |-> "TypeError", kind |-> "none", v |-> 0]

\* a >= c for a float a and a finite number c
FloatGE(a, c) ==
    CASE a.kind = "num" -> a.v >= c
      [] a.kind = "inf" -> TRUE
      [] OTHER -> FALSE

\* _check_confidence: False for a message that is no dict or has no
\* confidence (or None), "float(confidence) >= min_confidence" otherwise,
\* False when float raises TypeError or ValueError; another exception escapes
_check_confidence(message, min_confidence) ==
    IF message.kind # "dict" \/ ~message.has \/ message.conf.kind = "none"
    THEN [raised |-> "none", res |-> FALSE]
    ELSE LET a == PyFloat(message.conf) IN
         IF a.raised \in {"TypeError", "ValueError"} THEN [raised |-> "none", res |-> FALSE]
         ELSE IF a.raised # "none" THEN [raised |-> a.raised, res |-> FALSE]
         ELSE [raised |-> "none", res |-> FloatGE(a, min_confidence)]

\* FilterProcessor.process with min_confidence set and condition None: the
\* message when the check passes, None when it fails or raises ("except
\* Exception: return None")
FilterProcess(min_confidence, message) ==
    LET q == _check_confidence(message, min_confidence) IN
    IF q.raised = "none" /\ q.res THEN "pass" ELSE "drop"

\* the call of process returns
Filter_process ==
    /\ pure.f = "filter" /\ pure.res = "pending"
    /\ pure' = [pure EXCEPT !.res = FilterProcess(pure.min_confidence, pure.message)]
    /\ UNCHANGED <<cfg, running, tasks, stopCall, conn, nextMsg, trace, faults, agg,
                   aggLog, now, eng, ext>>

(***************************************************************************)
(* FilterProcessor with a condition.  A condition is the expression it      *)
(* spells: a field name, a comparison "e > c" with a number c, "a or b",    *)
(* "a and b", "not a"; or a blank string, or a string that is no            *)
(* expression.  eval evaluates it as Python does, from left to right, "or"  *)
(* and "and" leaving their right side alone when the left one decides.      *)
(***************************************************************************)
CondName(n) == [op |-> "name", n |-> n]
CondGt(a, c) == [op |-> "gt", a |-> a, c |-> c]
CondOr(a, b) == [op |-> "or", a |-> a, b |-> b]

\* the conditions tried: "", "value >", "value", "value > 10",
\* "value > 10 or other > 10", "value > 10 and other > 10",
\* "value > 10 or other", "not value > 10"
Conditions ==
    LET v == CondGt(CondName("value"), 10)
        o == CondGt(CondName("other"), 10) IN
    { [op |-> "blank"], [op |-> "syntax"], CondName("value"), v, CondOr(v, o),
      [op |-> "and", a |-> v, b |-> o], CondOr(v, CondName("other")),
      [op |-> "not", a |-> v] }

\* the values a field may have: two integers, a string, None, a list
CondValues ==
    { PyVal("int", 15), PyVal("int", 5), PyVal("str", 1), PyVal("none", 0),
      PyVal("list", 1) }

\* the messages tried: dicts with any of the two fields, and a string
CondMessages ==
    { [kind |-> "dict", fields |-> f]
        : f \in UNION { [D -> CondValues] : D \in SUBSET {"value", "other"} } } \cup
    { [kind |-> "str", fields |-> [n \in {} |-> PyVal("none", 0)]] }

\* bool(x)
Truthy(x) ==
    CASE x.kind \in {"int", "bool", "str", "list"} -> x.v # 0
      [] OTHER -> FALSE

\* the result of an evaluation: a value, or an exception; reads is the set of
\* names the evaluation looked up
EvalValue(x, reads) == [exc |-> FALSE, v |-> x, reads |-> reads]
EvalError(reads) == [exc |-> TRUE, v |-> PyVal("none", 0), reads |-> reads]

\* eval of expression e with the names of env: a name that is not in env
\* raises NameError, "e > c" raises TypeError unless e is a number
RECURSIVE Eval(_, _)
Eval(e, env) ==
    CASE e.op = "name" ->
           IF e.n \in DOMAIN env THEN EvalValue(env[e.n], {e.n}) ELSE EvalError({e.n})
      [] e.op = "gt" ->
           LET a == Eval(e.a, env) IN
           IF a.exc THEN a
           ELSE IF a.v.kind \in {"int", "bool"}
           THEN EvalValue(PyVal("bool", IF a.v.v > e.c THEN 1 ELSE 0), a.reads)
           ELSE EvalError(a.reads)
      [] e.op = "not" ->
           LET a == Eval(e.a, env) IN
           IF a.exc THEN a
           ELSE EvalValue(PyVal("bool", IF Truthy(a.v) THEN 0 ELSE 1), a.reads)
      [] e.op = "or" ->
           LET a == Eval(e.a, env) IN
           IF a.exc \/ Truthy(a.v) THEN a
           ELSE LET b == Eval(e.b, env) IN [b EXCEPT !.reads = a.reads \cup @]
      [] e.op = "and" ->
           LET a == Eval(e.a, env) IN
           IF a.exc \/ ~Truthy(a.v) THEN a
           ELSE LET b == Eval(e.b, env) IN [b EXCEPT !.reads = a.reads \cup @]

\* "isinstance(value, (int, float, str, bool, type(None)))"
IsScalar(x) == x.kind \in {"int", "float", "bool", "str", "none"}

\* the safe_dict of _evaluate_condition without the isinstance test
SafeDict_all(fields) == fields

\* the safe_dict of _evaluate_condition: the fields with a scalar value
SafeDict(fields) ==
    [n \in { k \in DOMAIN fields : IsScalar(fields[k]) } |-> fields[n]]

\* _evaluate_condition: True for a blank condition; otherwise bool(eval(...))
\* over the safe_dict, False when anything raises (a message that is no dict,
\* a string that is no expression, an exception of the evaluation)
_evaluate_condition(condition, context) ==
    IF condition.op = "blank" THEN TRUE
    ELSE IF context.kind # "dict" \/ condition.op = "syntax" THEN FALSE
    ELSE LET q == Eval(condition, SafeDict(context.fields)) IN
         ~q.exc /\ Truthy(q.v)

\* FilterProcessor.process with condition set and min_confidence None
FilterCondition(condition, message) ==
    IF _evaluate_condition(condition, message) THEN "pass" ELSE "drop"

\* the call of process returns
Filter_condition ==
    /\ pure.f = "condition" /\ pure.res = "pending"
    /\ pure' = [pure EXCEPT !.res = FilterCondition(pure.condition, pure.message)]
    /\ UNCHANGED <<cfg, running, tasks, stopCall, conn, nextMsg, trace, faults, agg,
                   aggLog, now, eng, ext>>

(***************************************************************************)
(* _apply_strategy of the AggregateProcessor with strategy "sum", on a      *)
(* buffer of Python values of any type.                                     *)
(***************************************************************************)
\* the longest buffer summed
MaxSumItems == 3

\* the items tried: two integers, a string that spells a number and one that
\* does not, a list, None, and an integer too large for a float
SumItems ==
    { PyVal("int", 1), PyVal("int", 2), PyVal("numstr", 3), PyVal("str", 0),
      PyVal("list", 0), PyVal("none", 0), PyVal("hugeint", 0) }

\* "float(x) if isinstance(x, (int, float, str)) else 0"
SumTerm(x) ==
    IF x.kind \in {"int", "float", "bool", "numstr", "str", "hugeint"}
    THEN PyFloat(x)
    ELSE [raised |-> "none", kind |-> "num", v |-> 0]

\* sum(...) inside "try ... except (ValueError, TypeError): return 0": the
\* first item whose float() raises ends the sum; ValueError and TypeError
\* give 0 for the whole buffer, another exception leaves _apply_strategy
SumOf(terms) ==
    LET bad == { i \in 1..Len(terms) : terms[i].raised # "none" } IN
    IF bad = {}
    THEN [raised |-> "none", v |-> SeqSum([i \in 1..Len(terms) |-> terms[i].v])]
    ELSE LET i == CHOOSE j \in bad : \A k \in bad : j <= k IN
         IF terms[i].raised \in {"ValueError", "TypeError"}
         THEN [raised |-> "none", v |-> 0]
         ELSE [raised |-> terms[i].raised, v |-> 0]

\* _apply_strategy(buffer) with strategy "sum"
_apply_sum(buffer) == SumOf([i \in 1..Len(buffer) |-> SumTerm(buffer[i])])

\* the call of _apply_strategy returns or raises
Apply_sum ==
    /\ pure.f = "sum" /\ ~pure.done
    /\ pure' = [pure EXCEPT !.done = TRUE, !.res = _apply_sum(pure.buffer)]
    /\ UNCHANGED <<cfg, running, tasks, stopCall, conn, nextMsg, trace, faults, agg,
                   aggLog, now, eng, ext>>

(***************************************************************************)
(* Construction of processors: the factory function create_processor       *)
(* (processors/factory.py) and ProcessorManager.create_processor            *)
(* (engine/processor.py).  A type string is a name in some casing, or a     *)
(* dotted path "module.Class".                                              *)
(***************************************************************************)
\* the keys of PROCESSOR_TYPES
BuiltinTypes == {"external", "filter", "transform", "aggregate", "debug"}

\* the "type" strings tried: the built-in names and a name that is not one,
\* each in lower case, in upper case and capitalized; the dotted path of a
\* class that can be imported, of a module that cannot, of a missing class
TypeStrings ==
    { [form |-> "name", name |-> n, casing |-> c]
        : n \in BuiltinTypes \cup {"nosuch"}, c \in {"lower", "upper", "title"} } \cup
    { [form |-> "dotted", name |-> n, casing |-> "mixed"]
        : n \in {"importable", "no module", "no class"} }

\* str.lower()
Lower(t) == IF t.form = "name" THEN [t EXCEPT !.casing = "lower"] ELSE t

\* the entries of PROCESSOR_TYPES, as type strings
PROCESSOR_TYPES == { [form |-> "name", name |-> n, casing |-> "lower"] : n \in BuiltinTypes }

\* the outcome of a construction: a processor of a class, or an exception
Built(class) == [ok |-> TRUE, class |-> class, raised |-> "none"]
Failed(exc) == [ok |-> FALSE, class |-> "none", raised |-> exc]

\* a call that has not returned yet
Pending == Failed("pending")

\* factory.create_processor: the class is looked up under proc_type.lower();
\* an unknown type and a constructor that raises give ValueError
create_processor(t, args_ok) ==
    IF Lower(t) \notin PROCESSOR_TYPES THEN Failed("ValueError")
    ELSE IF ~args_ok THEN Failed("ValueError")
    ELSE Built(t.name)

\* ProcessorManager.create_processor on a manager whose registry is reg: a
\* type that is not a key of the registry, as it is written, is imported as
\* "module.Class"; a string without a dot raises ValueError ("Invalid
\* processor type format"), a failed import ValueError ("Unknown processor
\* type"); the constructor's exception is not wrapped
Manager_create_processor(reg, t, args_ok) ==
    IF t \notin reg /\ t.form = "name" THEN Failed("ValueError")
    ELSE IF t \notin reg /\ t.name # "importable" THEN Failed("ValueError")
    ELSE IF ~args_ok THEN Failed("TypeError")
    ELSE Built(t.name)

\* the call of create_processor returns or raises
Create_processor ==
    /\ pure.f \in {"factory", "manager"} /\ pure.res = Pending
    /\ pure' = [pure EXCEPT !.res =
                  IF pure.f = "factory"
                  THEN create_processor(pure.type, pure.args_ok)
                  ELSE Manager_create_processor(pure.reg, pure.type, pure.args_ok)]
    /\ UNCHANGED <<cfg, running, tasks, stopCall, conn, nextMsg, trace, faults, agg,
                   aggLog, now, eng, ext>>

(***************************************************************************)
(* Construction of connectors from a URI string: ConnectorManager           *)
(* (engine/connector.py).  A URI string is the sequence of its tokens: the  *)
(* scheme, "://" or ":", and then names and the separators "@", ":", "/",   *)
(* "?", "=", "&".                                                           *)
(***************************************************************************)
\* the index of the first (last) occurrence of token t in s, 0 if there is none
FirstIdx(s, t) ==
    IF \E i \in 1..Len(s) : s[i] = t
    THEN CHOOSE i \in 1..Len(s) : s[i] = t /\ \A j \in 1..(i - 1) : s[j] # t
    ELSE 0
LastIdx(s, t) ==
    IF \E i \in 1..Len(s) : s[i] = t
    THEN CHOOSE i \in 1..Len(s) : s[i] = t /\ \A j \in (i + 1)..Len(s) : s[j] # t
    ELSE 0

Uris ==
    { [simple |-> FALSE, scheme |-> sc, auth |-> a, host |-> <<"example.com">>, port |-> po,
       path |-> pa, query |-> q]
        : sc \in {"file", "timer", "log", "nosuch"},
          a \in {<<>>, <<"user">>, <<"user", ":", "pass">>},
          po \in {<<>>, <<"8080">>},
          pa \in {<<>>, <<"/", "path">>},
          q \in {<<>>, <<"a", "=", "1">>, <<"a", "=", "1", "&", "a", "=", "2">>,
                 <<"a", "=", "1", "&", "b", "=", "2">>} } \cup
    { [simple |-> TRUE, scheme |-> sc, auth |-> <<>>, host |-> <<>>, port |-> <<>>,
       path |-> pa, query |-> <<>>]
        : sc \in {"file", "timer", "log", "nosuch"},
          pa \in {<<"5s">>, <<"simple", "/", "path">>, <<"/", "abs">>} }

\* the string of a URI
UriText(u) ==
    IF u.simple THEN <<u.scheme, ":">> \o u.path
    ELSE <<u.scheme, "://">>
         \o (IF u.auth = <<>> THEN <<>> ELSE u.auth \o <<"@">>)
         \o u.host
         \o (IF u.port = <<>> THEN <<>> ELSE <<":">> \o u.port)
         \o u.path
         \o (IF u.query = <<>> THEN <<>> ELSE <<"?">> \o u.query)

\* urllib.parse.urlparse of a string scheme://rest: the netloc runs to the
\* first "/" or "?", the path to the "?", the query is what follows it
urlparse(uri) ==
    LET rest == SubSeq(uri, 3, Len(uri))
        qi == FirstIdx(rest, "?")
        hier == IF qi = 0 THEN rest ELSE SubSeq(rest, 1, qi - 1)
        si == FirstIdx(hier, "/")
    IN [scheme |-> uri[1],
        netloc |-> IF si = 0 THEN hier ELSE SubSeq(hier, 1, si - 1),
        path |-> IF si = 0 THEN <<>> ELSE SubSeq(hier, si, Len(hier)),
        query |-> IF qi = 0 THEN <<>> ELSE SubSeq(rest, qi + 1, Len(rest))]

\* urllib.parse.parse_qs of k=v&k=v..., then the collapse of the code: a key
\* that occurs once has a scalar, a repeated key the list of its values
QueryPairs(q) == [i \in 1..((Len(q) + 1) \div 4) |-> <<q[4 * i - 3], q[4 * i - 1]>>]
QueryOptions(q) ==
    LET pairs == QueryPairs(q)
        vals(k) == LET sel == SelectSeq(pairs, LAMBDA pr : pr[1] = k)
                   IN [i \in 1..Len(sel) |-> sel[i][2]]
    IN { [k |-> pairs[i][1], list |-> Len(vals(pairs[i][1])) > 1, vals |-> vals(pairs[i][1])]
           : i \in 1..Len(pairs) }

\* a scalar option
Scalar(k, v) == [k |-> k, list |-> FALSE, vals |-> <<v>>]

\* ConnectorManager._parse_uri: the simple form gives the scheme and the
\* path as they are; otherwise urlparse, the query options, and username and
\* password when the netloc has "user:pass@"
_parse_uri(uri) ==
    IF uri[2] # "://"
    THEN [scheme |-> uri[1], netloc |-> <<>>, path |-> SubSeq(uri, 3, Len(uri)),
          query |-> <<>>, options |-> {}]
    ELSE LET parsed == urlparse(uri)
             at == LastIdx(parsed.netloc, "@")
             auth_part == SubSeq(parsed.netloc, 1, at - 1)
             options == QueryOptions(parsed.query)
         IN [scheme |-> parsed.scheme, netloc |-> parsed.netloc, path |-> parsed.path,
             query |-> parsed.query,
             options |-> IF at > 0 /\ FirstIdx(auth_part, ":") > 0
                         THEN { o \in options : o.k \notin {"username", "password"} }
                              \cup { Scalar("username", auth_part[1]),
                                     Scalar("password", auth_part[3]) }
                         ELSE options]

\* the schemes registered by _register_builtin_connectors, of those tried
source_types == {"file", "timer"}
destination_types == {"file", "log"}

\* what a constructor is called with: a URI string or a record, and keywords
CalledWithUri(uri, kwargs) == [form |-> "uri", uri |-> uri, kwargs |-> kwargs]
NotCalled == [form |-> "none", uri |-> <<>>, kwargs |-> {}]

\* the outcome of create_source / create_destination: the connector the
\* constructor made and what it was called with, or the exception
Created(scheme, call, parsed) ==
    [ok |-> TRUE, raised |-> "none", class |-> scheme, call |-> call, parsed |-> parsed]
CreateFailed(exc, call, parsed) ==
    [ok |-> FALSE, raised |-> exc, class |-> "none", call |-> call, parsed |-> parsed]

\* _create_source_from_uri: a string with ":" and without "://" is rewritten
\* to scheme://path before it is parsed; the class registered for the scheme
\* is called with the (rewritten) string and the options as keywords
_create_source_from_uri(uri0, ctor_ok) ==
    LET uri == IF uri0[2] # "://" THEN <<uri0[1], "://">> \o SubSeq(uri0, 3, Len(uri0))
               ELSE uri0
        parsed == _parse_uri(uri)
        call == CalledWithUri(uri, parsed.options)
    IN IF parsed.scheme \notin source_types THEN CreateFailed("ValueError", NotCalled, parsed)
       ELSE IF ~ctor_ok THEN CreateFailed("ConnectorError", call, parsed)
       ELSE Created(parsed.scheme, call, parsed)

\* _create_destination_from_uri: the string is parsed as it is
_create_destination_from_uri(uri, ctor_ok) ==
    LET parsed == _parse_uri(uri)
        call == CalledWithUri(uri, parsed.options)
    IN IF parsed.scheme \notin destination_types
       THEN CreateFailed("ValueError", NotCalled, parsed)
       ELSE IF ~ctor_ok THEN CreateFailed("ConnectorError", call, parsed)
       ELSE Created(parsed.scheme, call, parsed)

\* a create call that has not returned
CreatePending == CreateFailed("pending", NotCalled, _parse_uri(<<"", ":">>))

\* create_source(uri) or create_destination(uri) returns or raises
Create_connector ==
    /\ pure.f \in {"create_source", "create_destination"} /\ pure.res = CreatePending
    /\ pure' = [pure EXCEPT !.res =
                  IF pure.f = "create_source"
                  THEN _create_source_from_uri(UriText(pure.uri), pure.ctor_ok)
                  ELSE _create_destination_from_uri(UriText(pure.uri), pure.ctor_ok)]
    /\ UNCHANGED <<cfg, running, tasks, stopCall, conn, nextMsg, trace, faults, agg,
                   aggLog, now, eng, ext>>

(***************************************************************************)
(* Route.process on a chain of processors, one step per awaited             *)
(* processor.process call, and the send of the loop that follows it.  A     *)
(* processor passes its input on unchanged ("pass"), returns a new message  *)
(* built from its input ("map": the input with the processor's position     *)
(* appended), returns None ("drop") or raises ("raise").                    *)
(***************************************************************************)
\* the longest chain tried
MaxChain == 3

\* a value a processor returns, or None
Value(v) == [none |-> FALSE, v |-> v]
NoValue == [none |-> TRUE, v |-> <<>>]

\* processor.process(input) of the processor at position i, of behaviour b
ProcessorResult(b, i, input) ==
    CASE b = "pass" -> input
      [] b = "map" -> Value(Append(input.v, i))
      [] OTHER -> NoValue

\* Route.process up to its next await or its return, without the test
\* "if result is None: return None": the loop goes on to the next processor
Route_process_no_stop(c) ==
    IF Len(c.calls) = Len(c.procs) THEN [c EXCEPT !.pc = "returned"]
    ELSE LET i == Len(c.calls) + 1
             out == ProcessorResult(c.procs[i], i, c.result)
             c1 == [c EXCEPT !.calls = Append(@, [i |-> i, input |-> c.result,
                                                  output |-> out])] IN
         IF c.procs[i] = "raise" THEN [c1 EXCEPT !.pc = "raised", !.result = NoValue]
         ELSE [c1 EXCEPT !.result = out,
                         !.pc = IF i = Len(c.procs) THEN "returned" ELSE "run"]

\* Route.process up to its next await or its return: the next processor gets
\* the result so far; None ends the loop and is returned; an exception is
\* logged and raised again; after the last processor the result is returned
Route_process(c) ==
    IF Len(c.calls) = Len(c.procs) THEN [c EXCEPT !.pc = "returned"]
    ELSE LET i == Len(c.calls) + 1
             out == ProcessorResult(c.procs[i], i, c.result)
             c1 == [c EXCEPT !.calls = Append(@, [i |-> i, input |-> c.result,
                                                  output |-> out])] IN
         IF c.procs[i] = "raise" THEN [c1 EXCEPT !.pc = "raised", !.result = NoValue]
         ELSE [c1 EXCEPT !.result = out,
                         !.pc = IF out.none \/ i = Len(c.procs) THEN "returned"
                                ELSE "run"]

\* a chain run on the message data, before its first step
ChainCall(procs, data) ==
    [f |-> "chain", procs |-> procs, data |-> data, calls |-> <<>>, pc |-> "run",
     result |-> Value(data), sent |-> <<>>]

\* one step of "result = await self.process(data)"
Chain_step ==
    /\ pure.f = "chain" /\ pure.pc = "run"
    /\ pure' = Route_process(pure)
    /\ UNCHANGED <<cfg, running, tasks, stopCall, conn, nextMsg, trace, faults, agg,
                   aggLog, now, eng, ext>>

\* "if result is not None: await self._safe_send(self.destination, result)"
Chain_send ==
    /\ pure.f = "chain" /\ pure.pc = "returned"
    /\ pure' = IF pure.result.none THEN [pure EXCEPT !.pc = "skipped"]
               ELSE [pure EXCEPT !.pc = "sent", !.sent = Append(@, pure.result.v)]
    /\ UNCHANGED <<cfg, running, tasks, stopCall, conn, nextMsg, trace, faults, agg,
                   aggLog, now, eng, ext>>

(***************************************************************************)
(* Route._handle_error over a list of handler records, one step per         *)
(* resumption.  Besides the handlers of the three types there are records   *)
(* whose execution raises: a log handler whose message template names an    *)
(* unknown field ("log_bad": str.format raises KeyError) and a retry        *)
(* handler whose max_attempts is not an integer ("retry_bad": range raises  *)
(* TypeError); "fallback_none" is a fallback handler without destination,   *)
(* "other" a record of an unknown type.                                     *)
(***************************************************************************)
\* the longest error_handlers list tried
MaxHandlers == 2
\* the max_attempts option of the retry handlers tried
MaxHandlerAttempts == 2

\* a call _handle_error(error, message), before its first step; message tells
\* whether a message was passed
HandleCall(handlers, message) ==
    [f |-> "handle_error", handlers |-> handlers, message |-> message,
     i |-> 1, att |-> 0, visited |-> <<>>, logged |-> <<>>, handled |-> FALSE,
     pc |-> "run", ret |-> FALSE]

\* a handler's exception without the "except Exception as handler_error" of
\* the loop over the handlers: it leaves _handle_error
HandlerRaised_escapes(h) == [h EXCEPT !.pc = "escaped"]

\* "except Exception as handler_error": the error of handler h.i is logged
\* and the loop goes on to the next handler
HandlerRaised(h) == [h EXCEPT !.logged = Append(@, h.i), !.i = @ + 1]

\* one attempt of the retry handler h.i, up to its sleep or its return:
\* without a message it only sleeps; with one, process and the send either
\* succeed ("return True") or give None or raise, and the attempt sleeps
RetryOutcomes(h) ==
    { [h EXCEPT !.pc = "sleep"] } \cup
    (IF h.message THEN { [h EXCEPT !.pc = "returned", !.ret = TRUE] } ELSE {})

\* the loop over the handlers from h.i on, up to the next suspension or to
\* "return handled"
RECURSIVE HandlersFrom(_)
HandlersFrom(h) ==
    IF h.pc # "run" THEN { h }
    ELSE IF h.i > Len(h.handlers) THEN { [h EXCEPT !.pc = "returned", !.ret = h.handled] }
    ELSE LET k == h.handlers[h.i]
             v == [h EXCEPT !.visited = Append(@, h.i)] IN
         CASE k = "log" -> HandlersFrom([v EXCEPT !.handled = TRUE, !.i = @ + 1])
           [] k = "fallback" -> HandlersFrom([v EXCEPT !.handled = TRUE, !.i = @ + 1])
           [] k \in {"fallback_none", "other"} -> HandlersFrom([v EXCEPT !.i = @ + 1])
           [] k \in {"log_bad", "retry_bad"} -> HandlersFrom(HandlerRaised(v))
           [] k = "retry" -> RetryOutcomes([v EXCEPT !.att = 1])

\* the first step of _handle_error
Handle_error_call ==
    /\ pure.f = "handle_error" /\ pure.pc = "run"
    /\ pure' \in HandlersFrom(pure)
    /\ UNCHANGED <<cfg, running, tasks, stopCall, conn, nextMsg, trace, faults, agg,
                   aggLog, now, eng, ext>>

\* the sleep of a retry attempt is over: the next attempt, or "Max retries
\* exceeded" and the next handler
Handle_error_wake ==
    /\ pure.f = "handle_error" /\ pure.pc = "sleep"
    /\ pure' \in IF pure.att < MaxHandlerAttempts
                 THEN RetryOutcomes([pure EXCEPT !.att = @ + 1])
                 ELSE HandlersFrom([pure EXCEPT !.pc = "run", !.i = @ + 1, !.att = 0])
    /\ UNCHANGED <<cfg, running, tasks, stopCall, conn, nextMsg, trace, faults, agg,
                   aggLog, now, eng, ext>>

(***************************************************************************)
(* Initial states.                                                         *)
(***************************************************************************)
\* a route that is given nothing to do
IdleRoute == [handlers |-> <<>>, chain |-> "plain", retry_attempts |-> RetryAttempts,
              feed |-> 0, enabled |-> TRUE, valid |-> TRUE]

\* the state of the routes after construction, route r being given budget[r]
\* faults
RouteInit(budget) ==
    /\ running = [r \in AllRoutes |-> FALSE]
    /\ tasks = [r \in AllRoutes |-> <<>>]
    /\ stopCall = [r \in AllRoutes |-> StopReturned("none")]
    /\ conn = [r \in AllRoutes |-> [src |-> ConnInit, dst |-> ConnInit]]
    /\ nextMsg = [r \in AllRoutes |-> 0]
    /\ trace = [r \in AllRoutes |-> <<>>]
    /\ faults = budget

\* the AggregateProcessor of the specifications that do not use one
AggIdle == AggNew("collect", MaxAggSize, "none")

(***************************************************************************)
(* Spec: a single route with a chain of stateless processors, driven by    *)
(* direct calls of start and stop.                                         *)
(***************************************************************************)
SupStep(r) ==
    \E t \in 1..MaxStarts :
        \/ SupOpen(r, t)
        \/ SupReceiveMsg(r, t)
        \/ SupReceiveNone(r, t)
        \/ SupReceiveFail(r, t)
        \/ SupReceiveWake(r, t)
        \/ SupSendOk(r, t)
        \/ SupSendFail(r, t)
        \/ SupSendWake(r, t)
        \/ SupHandlerWake(r, t)
        \/ SupCancelled(r, t)

Next ==
    \E r \in SoloRoutes :
        \/ Route_start(r)
        \/ Route_stop_begin(r)
        \/ Route_stop_await(r)
        \/ Route_stop_disconnect(r)
        \/ SupStep(r)

Spec ==
    /\ (
        /\ \E h \in { <<>>, <<"retry">>, <<"retry", "log">>, <<"fallback">> } :
              cfg = [r \in AllRoutes |->
                        IF r \in SoloRoutes
                        THEN [handlers |-> h, chain |-> "plain",
                              retry_attempts |-> RetryAttempts, feed |-> MaxMsgs,
                              enabled |-> TRUE, valid |-> TRUE]
                        ELSE IdleRoute]
        /\ RouteInit([r \in AllRoutes |-> IF r \in SoloRoutes THEN MaxFaults ELSE 0])
        /\ agg = AggIdle
        /\ aggLog = <<>>
        /\ now = 1
        /\ eng = EngInit
        /\ ext = ExtInit
        /\ pure = NoCall
       )
    /\ [][Next]_vars

(***************************************************************************)
(* CancelSpec: a single route whose safe-receive and safe-send retry or    *)
(* give up at the first failure, with no handler or a retry handler, its   *)
(* source holding one message.                                             *)
(***************************************************************************)
CancelSpec ==
    /\ (
        /\ \E h \in { <<>>, <<"retry">> } : \E n \in {0, RetryAttempts} :
              cfg = [r \in AllRoutes |->
                        IF r \in SoloRoutes
                        THEN [handlers |-> h, chain |-> "plain",
                              retry_attempts |-> n, feed |-> 1,
                              enabled |-> TRUE, valid |-> TRUE]
                        ELSE IdleRoute]
        /\ RouteInit([r \in AllRoutes |-> IF r \in SoloRoutes THEN MaxFaults ELSE 0])
        /\ agg = AggIdle
        /\ aggLog = <<>>
        /\ now = 1
        /\ eng = EngInit
        /\ ext = ExtInit
        /\ pure = NoCall
       )
    /\ [][Next]_vars

(***************************************************************************)
(* AggSpec: an AggregateProcessor on its own, under calls of process and   *)
(* close, its timer task and the clock.                                    *)
(***************************************************************************)
AggSpec ==
    /\ (
        /\ cfg = [r \in AllRoutes |-> IdleRoute]
        /\ RouteInit([r \in AllRoutes |-> 0])
        /\ \E s \in Strategies : \E n \in 1..MaxAggSize : \E cb \in {"none", "sync", "async"} :
              agg = AggNew(s, n, cb)
        /\ aggLog = <<>>
        /\ now = 1
        /\ eng = EngInit
        /\ ext = ExtInit
        /\ pure = NoCall
       )
    /\ [][
        \/ Agg_process
        \/ Agg_flush_later
        \/ Agg_close
        \/ Clock_tick
       ]_vars

(***************************************************************************)
(* ExtSpec: an ExternalProcessor on its own, under calls of process with   *)
(* messages json.dump accepts or rejects, and cancellation of the callers. *)
(***************************************************************************)
ExtSpec ==
    /\ (
        /\ cfg = [r \in AllRoutes |-> IdleRoute]
        /\ RouteInit([r \in AllRoutes |-> 0])
        /\ agg = AggIdle
        /\ aggLog = <<>>
        /\ now = 1
        /\ eng = EngInit
        /\ ext = ExtInit
        /\ pure = NoCall
       )
    /\ [][
        \/ \E m \in {"json", "unserializable"} : Ext_process(m)
        \/ \E i \in 1..MaxCalls :
              \/ Ext_spawn(i)
              \/ Ext_exit(i)
              \/ Ext_timeout(i)
              \/ Ext_reaped(i)
              \/ Ext_cancel(i)
              \/ Ext_cancelled(i)
       ]_vars

(***************************************************************************)
(* FilterSpec: one call of FilterProcessor.process, for every threshold    *)
(* and message of the sets above.                                          *)
(***************************************************************************)
FilterSpec ==
    /\ (
        /\ cfg = [r \in AllRoutes |-> IdleRoute]
        /\ RouteInit([r \in AllRoutes |-> 0])
        /\ agg = AggIdle
        /\ aggLog = <<>>
        /\ now = 1
        /\ eng = EngInit
        /\ ext = ExtInit
        /\ \E c \in {0, 5, 10} : \E m \in FilterMessages :
              pure = [f |-> "filter", min_confidence |-> c, message |-> m, res |-> "pending"]
       )
    /\ [][
        Filter_process
       ]_vars

(***************************************************************************)
(* CondSpec: one call of FilterProcessor.process with a condition.          *)
(***************************************************************************)
CondSpec ==
    /\ (
        /\ cfg = [r \in AllRoutes |-> IdleRoute]
        /\ RouteInit([r \in AllRoutes |-> 0])
        /\ agg = AggIdle
        /\ aggLog = <<>>
        /\ now = 1
        /\ eng = EngInit
        /\ ext = ExtInit
        /\ \E c \in Conditions : \E m \in CondMessages :
              pure = [f |-> "condition", condition |-> c, message |-> m, res |-> "pending"]
       )
    /\ [][
        Filter_condition
       ]_vars

(***************************************************************************)
(* SumSpec: one call of _apply_strategy with strategy "sum".                *)
(***************************************************************************)
SumSpec ==
    /\ (
        /\ cfg = [r \in AllRoutes |-> IdleRoute]
        /\ RouteInit([r \in AllRoutes |-> 0])
        /\ agg = AggIdle
        /\ aggLog = <<>>
        /\ now = 1
        /\ eng = EngInit
        /\ ext = ExtInit
        /\ \E b \in (UNION { [1..n -> SumItems] : n \in 1..MaxSumItems }) :
              pure = [f |-> "sum", buffer |-> b, done |-> FALSE,
                      res |-> [raised |-> "none", v |-> 0]]
       )
    /\ [][
        Apply_sum
       ]_vars

(***************************************************************************)
(* ChainSpec: one message run through a chain of processors by              *)
(* Route.process, and what the loop sends for it.                           *)
(***************************************************************************)
ChainSpec ==
    /\ (
        /\ cfg = [r \in AllRoutes |-> IdleRoute]
        /\ RouteInit([r \in AllRoutes |-> 0])
        /\ agg = AggIdle
        /\ aggLog = <<>>
        /\ now = 1
        /\ eng = EngInit
        /\ ext = ExtInit
        /\ \E procs \in UNION { [1..n -> {"pass", "map", "drop", "raise"}] : n \in 0..MaxChain } :
              pure = ChainCall(procs, <<0>>)
       )
    /\ [][
        \/ Chain_step
        \/ Chain_send
       ]_vars

(***************************************************************************)
(* HandlerSpec: one call of Route._handle_error, for every list of at most  *)
(* MaxHandlers handler records, with and without a message.                 *)
(***************************************************************************)
HandlerSpec ==
    /\ (
        /\ cfg = [r \in AllRoutes |-> IdleRoute]
        /\ RouteInit([r \in AllRoutes |-> 0])
        /\ agg = AggIdle
        /\ aggLog = <<>>
        /\ now = 1
        /\ eng = EngInit
        /\ ext = ExtInit
        /\ \E hs \in UNION { [1..n -> {"log", "log_bad", "retry", "retry_bad",
                                        "fallback", "fallback_none", "other"}] :
                              n \in 0..MaxHandlers } :
              \E m \in BOOLEAN : pure = HandleCall(hs, m)
       )
    /\ [][
        \/ Handle_error_call
        \/ Handle_error_wake
       ]_vars

(***************************************************************************)
(* FactorySpec: one construction of a processor, by the factory function   *)
(* or by a ProcessorManager, for every type string above.                  *)
(***************************************************************************)
FactorySpec ==
    /\ (
        /\ cfg = [r \in AllRoutes |-> IdleRoute]
        /\ RouteInit([r \in AllRoutes |-> 0])
        /\ agg = AggIdle
        /\ aggLog = <<>>
        /\ now = 1
        /\ eng = EngInit
        /\ ext = ExtInit
        /\ \E t \in TypeStrings : \E a \in BOOLEAN :
              \/ pure = [f |-> "factory", reg |-> PROCESSOR_TYPES, type |-> t, args_ok |-> a,
                         res |-> Pending]
              \/ \E reg \in { {}, { [form |-> "name", name |-> "filter", casing |-> "lower"] } } :
                    pure = [f |-> "manager", reg |-> reg, type |-> t, args_ok |-> a,
                            res |-> Pending]
       )
    /\ [][
        Create_processor
       ]_vars

(***************************************************************************)
(* UriSpec: one create_source or create_destination call with a URI string. *)
(***************************************************************************)
UriSpec ==
    /\ (
        /\ cfg = [r \in AllRoutes |-> IdleRoute]
        /\ RouteInit([r \in AllRoutes |-> 0])
        /\ agg = AggIdle
        /\ aggLog = <<>>
        /\ now = 1
        /\ eng = EngInit
        /\ ext = ExtInit
        /\ \E f \in {"create_source", "create_destination"} : \E u \in Uris : \E c \in BOOLEAN :
              pure = [f |-> f, uri |-> u, ctor_ok |-> c, res |-> CreatePending]
       )
    /\ [][
        Create_connector
       ]_vars

(***************************************************************************)
(* AggRouteSpec: a single route whose chain is an AggregateProcessor.  The *)
(* route never sets a flush callback.                                       *)
(***************************************************************************)
AggRouteSpec ==
    /\ (
        /\ cfg = [r \in AllRoutes |->
                     IF r \in SoloRoutes
                     THEN [handlers |-> <<"retry">>, chain |-> "agg",
                           retry_attempts |-> RetryAttempts, feed |-> MaxMsgs,
                              enabled |-> TRUE, valid |-> TRUE]
                     ELSE IdleRoute]
        /\ RouteInit([r \in AllRoutes |-> IF r \in SoloRoutes THEN MaxFaults ELSE 0])
        /\ \E s \in Strategies : agg = AggNew(s, MaxAggSize, "none")
        /\ aggLog = <<>>
        /\ now = 1
        /\ eng = EngInit
        /\ ext = ExtInit
        /\ pure = NoCall
       )
    /\ [][
        \/ Next
        \/ Agg_flush_later
        \/ Clock_tick
       ]_vars

(***************************************************************************)
(* StopSpec: a single route with a retry handler whose chain is an         *)
(* AggregateProcessor of any max_size, its source holding one message.     *)
(***************************************************************************)
StopSpec ==
    /\ (
        /\ cfg = [r \in AllRoutes |->
                     IF r \in SoloRoutes
                     THEN [handlers |-> <<"retry">>, chain |-> "agg",
                           retry_attempts |-> RetryAttempts, feed |-> 1,
                           enabled |-> TRUE, valid |-> TRUE]
                     ELSE IdleRoute]
        /\ RouteInit([r \in AllRoutes |-> IF r \in SoloRoutes THEN MaxFaults ELSE 0])
        /\ \E s \in Strategies : \E n \in 1..MaxAggSize : agg = AggNew(s, n, "none")
        /\ aggLog = <<>>
        /\ now = 1
        /\ eng = EngInit
        /\ ext = ExtInit
        /\ pure = NoCall
       )
    /\ [][
        \/ Next
        \/ Agg_flush_later
        \/ Clock_tick
       ]_vars

(***************************************************************************)
(* ExtRouteSpec: a single route whose chain is an ExternalProcessor.       *)
(***************************************************************************)
ExtRouteSpec ==
    /\ (
        /\ cfg = [r \in AllRoutes |->
                     IF r \in SoloRoutes
                     THEN [handlers |-> <<"retry">>, chain |-> "ext",
                           retry_attempts |-> RetryAttempts, feed |-> MaxMsgs,
                           enabled |-> TRUE, valid |-> TRUE]
                     ELSE IdleRoute]
        /\ RouteInit([r \in AllRoutes |-> IF r \in SoloRoutes THEN MaxFaults ELSE 0])
        /\ agg = AggIdle
        /\ aggLog = <<>>
        /\ now = 1
        /\ eng = EngInit
        /\ ext = ExtInit
        /\ pure = NoCall
       )
    /\ [][Next]_vars

(***************************************************************************)
(* EngineSpec: the engine with its routes, driven by calls of              *)
(* engine.start, engine.stop and route.stop.                                *)
(***************************************************************************)
\* calls of a connector or processor of route 1 that raise or time out
EngineFaults == 1

\* the "routes" list of the engine's configuration: both entries as written,
\* one of them with enabled = false, or one of them an entry Route.from_config
\* rejects (an unknown scheme, an unknown processor type)
EngineConfigs ==
    { [r \in AllRoutes |->
          [handlers |-> <<"retry">>, chain |-> "plain",
           retry_attempts |-> RetryAttempts, feed |-> IF r = 1 THEN 1 ELSE 0,
           enabled |-> r # k.off, valid |-> r # k.bad]]
      : k \in { [off |-> 0, bad |-> 0], [off |-> 2, bad |-> 0],
                [off |-> 0, bad |-> 1], [off |-> 0, bad |-> 2] } }

EngineSpec ==
    /\ (
        /\ cfg \in EngineConfigs
        /\ RouteInit([r \in AllRoutes |-> IF r = 1 THEN EngineFaults ELSE 0])
        /\ agg = AggIdle
        /\ aggLog = <<>>
        /\ now = 1
        /\ eng = EngInit
        /\ ext = ExtInit
        /\ pure = NoCall
       )
    /\ [][
        \/ Engine_start
        \/ Engine_start_wake
        \/ Engine_stop
        \/ Engine_stop_next
        \/ \E r \in LoadedRoutes :
              \/ Route_stop_begin(r)
              \/ Route_stop_await(r)
              \/ Route_stop_disconnect(r)
              \/ SupStep(r)
       ]_vars

(***************************************************************************)
(* MsgSpec: the engine, not started, under calls of process_message.       *)
(***************************************************************************)
MsgSpec ==
    /\ (
        /\ cfg \in EngineConfigs
        /\ RouteInit([r \in AllRoutes |-> MaxFaults])
        /\ agg = AggIdle
        /\ aggLog = <<>>
        /\ now = 1
        /\ eng = EngInit
        /\ ext = ExtInit
        /\ pure = NoCall
       )
    /\ [][
        \E r \in AllRoutes : \E m \in 1..MaxMsgs : Engine_process_message(r, m)
       ]_vars

(***************************************************************************)
(* Properties of a single route (specification Spec).                      *)
(***************************************************************************)
\* the calls of destination.send of route r, in the order they were made
Sends(r) == SelectSeq(trace[r], LAMBDA e : e.ev = "send")

\* the events of route r about payload p between the route and its destination
About(r, p) ==
    SelectSeq(trace[r], LAMBDA e : e.p = p /\ e.ev \in {"send", "ok", "fail", "sleep", "err"})

Count(q, ev) == Cardinality({ i \in 1..Len(q) : q[i].ev = ev })

\* C1: within one route the calls of destination.send follow the order in which
\* the messages were received: no send of an earlier message comes after a send
\* of a later one, whatever retries and error handlers ran in between.
C1_SendsInReceiveOrder ==
    \A r \in SoloRoutes :
        \A i, j \in 1..Len(Sends(r)) :
            i < j => Sends(r)[i].p[1] <= Sends(r)[j].p[1]

\* a later message is sent after every attempt for an earlier one failed and the
\* error handlers, a retry handler among them, ran
C1_Witness ==
    \E r \in SoloRoutes :
        /\ cfg[r].handlers = <<"retry", "log">>
        /\ \E i, j, k \in 1..Len(trace[r]) :
              /\ i < j /\ j < k
              /\ trace[r][i] = Event("err", <<1>>, "send")
              /\ trace[r][j] = Event("handled", <<1>>, "yes")
              /\ trace[r][k] = Event("send", <<2>>, "loop")

\* C2: the running flag of a route is true exactly when its supervisor task
\* exists and is not done (stated for the states in which no stop call is in
\* flight), and a running route has at most one live supervisor task.
C2_RunningIffLiveTask ==
    \A r \in SoloRoutes :
        stopCall[r].pc = "idle" =>
            /\ running[r] <=> (CurTask(r) > 0 /\ ~TaskDone(r, CurTask(r)))
            /\ running[r] => Cardinality(Live(r)) <= 1

\* no call in flight: every task is done and no stop call is suspended
Quiescent(r) ==
    /\ ~running[r]
    /\ Live(r) = {}
    /\ stopCall[r].pc = "idle"

C9_SafeSendRetries ==
    \A r \in SoloRoutes : \A p \in { <<m>> : m \in 1..MaxMsgs } :
        LET q == About(r, p) IN
        /\ Count(q, "send") <= cfg[r].retry_attempts + 1
        /\ Count(q, "ok") <= 1
        /\ Count(q, "err") <= 1
        /\ \A i \in 1..Len(q) :
              /\ i = 1 => q[i].ev = "send"
              /\ q[i].ev = "ok" => i = Len(q)
              /\ q[i].ev = "err" =>
                    /\ i = Len(q)
                    /\ Count(q, "fail") = cfg[r].retry_attempts + 1
                    /\ Count(q, "ok") = 0
              /\ i > 1 =>
                    CASE q[i].ev = "send" -> q[i - 1].ev = "sleep"
                      [] q[i].ev = "sleep" -> q[i - 1].ev = "fail"
                      [] q[i].ev = "err" -> q[i - 1].ev = "fail"
                      [] q[i].ev \in {"ok", "fail"} -> q[i - 1].ev = "send"

\* a payload was delivered at its last attempt, after a failure and a sleep,
\* and the next payload is on its way
C9_Witness ==
    \E r \in SoloRoutes :
        /\ cfg[r].retry_attempts > 0
        /\ Count(About(r, <<1>>), "fail") = cfg[r].retry_attempts
        /\ Count(About(r, <<1>>), "ok") = 1
        /\ Count(trace[r], "err") = 0
        /\ Count(About(r, <<2>>), "send") = 1

\* C10: an error of a pipeline iteration does not end the supervisor: a
\* supervisor task ends with an error only when the source fails to open or to
\* close, and every error of an iteration was handed to the error handlers,
\* after which the loop went on.
C10_IterationErrorsHandled ==
    \A r \in SoloRoutes :
        /\ \A t \in 1..Len(tasks[r]) :
              (TaskDone(r, t) /\ tasks[r][t].outcome = "error")
                 => tasks[r][t].cause \in {"open", "close"}
        /\ Count(trace[r], "handled") <= Count(trace[r], "err")
        /\ Count(trace[r], "err") <= Count(trace[r], "handled") + Cardinality(
              { t \in 1..Len(tasks[r]) : tasks[r][t].pc \in {"hsleep", "hsend"} })
              + Cardinality({ t \in 1..Len(tasks[r]) :
                    \/ TaskDone(r, t) /\ tasks[r][t].outcome # "returned"
                    \/ tasks[r][t].pc = "closing" })

\* every attempt to send a payload failed, the only handler declined, and the
\* supervisor is at its next receive
C10_Witness ==
    \E r \in SoloRoutes : \E t \in 1..Len(tasks[r]) :
        /\ tasks[r][t].pc = "recv"
        /\ cfg[r].handlers = <<"retry">>
        /\ Len(trace[r]) >= 2
        /\ trace[r][Len(trace[r]) - 1] = Event("err", <<1>>, "send")
        /\ trace[r][Len(trace[r])] = Event("handled", <<1>>, "no")

Emissions(e) ==
    (IF e.returned THEN 1 ELSE 0) + (IF e.cb # "none" THEN 1 ELSE 0)

\* C5: every admitted message contributes to exactly one emitted aggregate: it
\* is in the buffer or in the items of exactly one flush, and the aggregate of
\* every flush is emitted exactly once, whether the flush was triggered by
\* size, by the timer or by close.
C5_ItemsEmittedOnce ==
    /\ \A m \in 1..nextMsg[1] :
          Cardinality({ i \in 1..Len(aggLog) :
                          \E k \in 1..Len(aggLog[i].items) : aggLog[i].items[k] = m })
             + (IF \E k \in 1..Len(agg.buffer) : agg.buffer[k] = m THEN 1 ELSE 0) = 1
    /\ \A i \in 1..Len(aggLog) : Emissions(aggLog[i]) = 1

\* C6: the number of buffered items is at most max_size.
C6_BufferBound == Len(agg.buffer) <= agg.max_size

\* a processor of max_size 2 flushed two items by size and holds a third
C6_Witness ==
    /\ agg.max_size = 2
    /\ Len(agg.buffer) = 1
    /\ \E i \in 1..Len(aggLog) :
          aggLog[i].via = "process" /\ Len(aggLog[i].items) = agg.max_size

\* the number of aggregates emitted by the flushes of log al, and the sum
\* of their values
RECURSIVE EmittedCount(_)
EmittedCount(al) ==
    IF al = <<>> THEN 0 ELSE Emissions(Head(al)) + EmittedCount(Tail(al))
RECURSIVE EmittedSum(_)
EmittedSum(al) ==
    IF al = <<>> THEN 0 ELSE Emissions(Head(al)) * Head(al).res.v + EmittedSum(Tail(al))

\* the processor was fed messages and then closed, every flush before the
\* close was by size, and the timer never fired
FedThenClosed ==
    /\ nextMsg[1] > 0
    /\ agg.buffer = <<>>
    /\ \A i \in 1..Len(aggLog) :
          /\ aggLog[i].via # "timer"
          /\ aggLog[i].via = "process" => Len(aggLog[i].items) = agg.max_size
          /\ aggLog[i].via = "close" => i = Len(aggLog)
    /\ nextMsg[1] % agg.max_size # 0 => aggLog # <<>> /\ aggLog[Len(aggLog)].via = "close"

\* C26: a processor with strategy count and max_size N (and no flush
\* callback, as in a route) that was fed total messages and then closed, with
\* no flush by the timer, has emitted ceil(total / N) aggregates, and their
\* values sum to total.
C26_CountAggregates ==
    (agg.strategy = "count" /\ agg.cb = "none" /\ FedThenClosed)
        => /\ EmittedCount(aggLog) = (nextMsg[1] + agg.max_size - 1) \div agg.max_size
           /\ EmittedSum(aggLog) = nextMsg[1]

\* C30: while the buffer holds items the first-admit time is set and the
\* timer task is pending, due at first-admit time + timeout; after a flush,
\* while the buffer is empty, the first-admit time is zero and no timer task
\* is pending.
C30_BufferHasTimer ==
    /\ agg.buffer # <<>> =>
          /\ agg.last > 0
          /\ agg.ft = "pending"
          /\ agg.due = agg.last + agg.timeout
    /\ (agg.buffer = <<>> /\ aggLog # <<>>) =>
          /\ agg.last = 0
          /\ agg.ft # "pending"

\* C31: a call process(msg) returns the aggregate exactly when the buffer
\* with msg appended has reached max_size, and the flush then takes all the
\* buffered items and msg; in every other case it returns drop, flushes
\* nothing and leaves msg at the end of the buffer.
C31_ProcessFlushesWhenFull ==
    [][nextMsg'[1] = nextMsg[1] + 1 =>
          LET items == Append(agg.buffer, nextMsg'[1]) IN
          IF Len(items) >= agg.max_size
          THEN /\ Len(aggLog') = Len(aggLog) + 1
               /\ aggLog'[Len(aggLog')].items = items
               /\ aggLog'[Len(aggLog')].returned
               /\ agg'.buffer = <<>>
          ELSE /\ aggLog' = aggLog
               /\ agg'.buffer = items]_vars

(***************************************************************************)
(* Properties of a route with an AggregateProcessor (AggRouteSpec).        *)
(***************************************************************************)
\* C7: when the deferred flush fires on a non-empty buffer, the aggregate is
\* emitted through the route: once the timer task has flushed and finished,
\* the route has sent the aggregate of the flushed items to its destination.
C7_TimerFlushSent ==
    \A r \in SoloRoutes : \A i \in 1..Len(aggLog) :
        (aggLog[i].via = "timer" /\ agg.ft # "pending")
            => \E j \in 1..Len(trace[r]) :
                  trace[r][j].ev = "send" /\ trace[r][j].p = aggLog[i].items

\* C8: stopping a route flushes the buffer of its AggregateProcessor and
\* delivers the final aggregate: once stop has returned and no task of the
\* route is left, no message is still in the buffer.
C8_StopFlushesBuffer ==
    \A r \in SoloRoutes :
        (cfg[r].chain = "agg" /\ Quiescent(r) /\ stopCall[r].res = "ok")
            => agg.buffer = <<>>

(***************************************************************************)
(* Cancellation and termination of Route.stop (specification Spec).        *)
(***************************************************************************)
\* a supervisor task whose cancellation was requested and that has not yet
\* resumed
CancelPending(r, t) ==
    /\ tasks[r][t].cancel
    /\ tasks[r][t].pc \notin {"done", "closing"}

C12_StopTerminates ==
    \A r \in SoloRoutes :
        /\ stopCall[r].pc # "hung"
        /\ stopCall[r].pc = "await" => tasks[r][stopCall[r].t].pc # "closing"

(***************************************************************************)
(* Properties of the ExternalProcessor (specification ExtSpec).            *)
(***************************************************************************)
\* C13: after any call of ExternalProcessor.process, whatever its outcome
\* (exit 0, another exit status, timeout, cancellation, a failure to
\* serialize the message or to spawn the command), the temporary file the
\* call created no longer exists.
C13_TempFileRemoved ==
    \A i \in 1..Len(ext.calls) :
        ext.calls[i].pc = "done" => ext.calls[i].file \notin ext.files

(***************************************************************************)
(* Properties of the engine's routes list (specification EngineSpec).      *)
(***************************************************************************)
\* C14: Engine.start starts exactly the routes configured with enabled = true:
\* a route configured with enabled = false is never started, no supervisor
\* task is created for it and its connectors are never opened.
C14_OnlyEnabledStarted ==
    \A r \in AllRoutes :
        ~cfg[r].enabled =>
            /\ ~running[r]
            /\ tasks[r] = <<>>
            /\ conn[r].src.opens = 0 /\ conn[r].dst.opens = 0

\* C15: when a route of the configuration fails to build, the error is fatal:
\* the engine never enters the running state and starts no route.
C15_BuildFailureFatal ==
    (\E r \in AllRoutes : ~cfg[r].valid) =>
        /\ ~eng.running /\ eng.starts = 0
        /\ \A r \in AllRoutes : ~running[r] /\ tasks[r] = <<>>

\* C16: a route that fails to build, at any position of the routes list, is
\* left out and does not affect the others: every route that builds is in
\* engine.routes, and once Engine.start has run it has been started (a
\* supervisor task was created for it); the route that failed is never started.
C16_BuildFailureSkipped ==
    \A r \in AllRoutes :
        /\ cfg[r].valid => r \in LoadedRoutes
        /\ (cfg[r].valid /\ eng.starts > 0) => Len(tasks[r]) > 0
        /\ ~cfg[r].valid => (r \notin LoadedRoutes /\ tasks[r] = <<>> /\ ~running[r])

\* the first entry of the routes list failed to build, and the engine runs
\* with the second: its supervisor opened the source
C16_Witness ==
    /\ ~cfg[1].valid /\ cfg[2].valid
    /\ eng.running /\ eng.starts = 1
    /\ running[2] /\ Len(tasks[2]) = 1
    /\ conn[2].src.open
    /\ tasks[1] = <<>>

\* C18: Engine.stop clears the running flag and calls route.stop on the routes
\* in the reverse of the order in which they were started: while it awaits the
\* stop of one route, the flag is cleared and every route started after that
\* one has been stopped already.
C18_StopsInReverseOrder ==
    \A i \in 1..Len(EngineRoutes) :
        eng.stopIdx = i =>
            /\ ~eng.running
            /\ \A j \in (i + 1)..Len(EngineRoutes) : ~running[EngineRoutes[j]]

(***************************************************************************)
(* Properties of Engine.process_message (specification MsgSpec).           *)
(***************************************************************************)
\* C17: a process_message call that returns a chain output other than drop
\* has sent that output to the route's destination just before it returned,
\* and a call that returns drop has sent nothing.
C17_ProcessMessageSends ==
    \A r \in AllRoutes : \A i \in 1..Len(trace[r]) :
        trace[r][i].ev = "returned" =>
            IF trace[r][i].p # None
            THEN i > 1 /\ trace[r][i - 1].ev = "send" /\ trace[r][i - 1].p = trace[r][i].p
            ELSE i = 1 \/ trace[r][i - 1].ev # "send"

(***************************************************************************)
(* Properties of the error handlers (specification Spec).                  *)
(***************************************************************************)
\* C19: when an iteration on message m failed and a retry handler is at work
\* (between its tries, or awaiting the send of a try), the message it re-runs
\* the chain and the send for is m.
C19_RetryRerunsMessage ==
    \A r \in SoloRoutes : \A t \in 1..Len(tasks[r]) :
        (/\ tasks[r][t].pc \in {"hsleep", "hsend"}
         /\ cfg[r].handlers[tasks[r][t].hidx] = "retry"
         /\ tasks[r][t].data # NoMsg)
            => tasks[r][t].hmsg = tasks[r][t].data

\* C20: in a route with a fallback handler, once the handlers have dealt with
\* an error the fallback handler has sent the message to the fallback
\* destination.
C20_FallbackSends ==
    \A r \in SoloRoutes : \A i \in 1..Len(trace[r]) :
        (trace[r][i].ev = "handled" /\ \E k \in 1..Len(cfg[r].handlers) :
                                           cfg[r].handlers[k] = "fallback")
            => \E j \in 1..(i - 1) :
                  trace[r][j].ev = "send" /\ trace[r][j].info = "fallback"

(***************************************************************************)
(* Properties of a route with an ExternalProcessor (ExtRouteSpec).         *)
(***************************************************************************)
\* C21: when the external command exits with a non-zero status or runs into
\* the timeout, the message is dropped, the route's error handlers are
\* invoked for the event (the failure is followed at once by an error of the
\* iteration handed to the handlers), and the supervisor goes on.
C21_ExternalFailureSurfaced ==
    \A r \in SoloRoutes : \A i \in 1..Len(trace[r]) :
        trace[r][i].ev = "extfail" =>
            /\ ~\E j \in 1..Len(trace[r]) :
                  trace[r][j].ev = "send" /\ trace[r][j].p = trace[r][i].p
            /\ i < Len(trace[r])
            /\ trace[r][i + 1].ev = "err" /\ trace[r][i + 1].info = "proc"

(***************************************************************************)
(* Properties of the FilterProcessor (specification FilterSpec).           *)
(***************************************************************************)
\* the message is a record whose confidence is a number
HasNumericConfidence(m) ==
    /\ m.kind = "dict" /\ m.has
    /\ m.conf.kind \in {"int", "float", "hugeint", "nan", "inf", "neginf"}

\* the number x is at least c
NumberAtLeast(x, c) ==
    CASE x.kind \in {"int", "float"} -> x.v >= c
      [] x.kind \in {"hugeint", "inf"} -> TRUE
      [] OTHER -> FALSE

\* C22: with min_confidence = c and no condition, process returns the message
\* if and only if the message is a record with a numeric confidence whose
\* value is at least c; every other message is dropped.
C22_PassIffConfident ==
    (pure.f = "filter" /\ pure.res # "pending") =>
        (pure.res = "pass" <=>
            (HasNumericConfidence(pure.message)
             /\ NumberAtLeast(pure.message.conf, pure.min_confidence)))

\* C23: with min_confidence = 0 every message that carries a numeric
\* confidence is passed, whatever the number.
C23_ZeroPassesAllNumeric ==
    (pure.f = "filter" /\ pure.res # "pending" /\ pure.min_confidence = 0
        /\ HasNumericConfidence(pure.message))
        => pure.res = "pass"

(***************************************************************************)
(* Properties of the construction of processors (FactorySpec).             *)
(***************************************************************************)
\* C24: in the factory function and in the manager the engine builds its
\* chains with (the one with nothing registered by hand), a type that names a
\* built-in processor in any casing, with valid options, yields a processor
\* of that class, and every type that names none fails with an error of the
\* configuration and yields no processor.
C24_TypeResolvedAnyCase ==
    (/\ pure.f \in {"factory", "manager"} /\ pure.res # Pending
     /\ pure.f = "manager" => pure.reg = {})
        => IF pure.type.form = "name" /\ pure.type.name \in BuiltinTypes
           THEN pure.args_ok => pure.res = Built(pure.type.name)
           ELSE pure.type.name # "importable" =>
                    (~pure.res.ok /\ pure.res.raised = "ValueError")

(***************************************************************************)
(* Properties of the construction of connectors (UriSpec).                 *)
(***************************************************************************)
\* the normalized record of a URI, from its parts
NormalizedRecord(u) ==
    [scheme |-> u.scheme,
     netloc |-> IF u.simple THEN <<>>
                ELSE (IF u.auth = <<>> THEN <<>> ELSE u.auth \o <<"@">>) \o u.host
                     \o (IF u.port = <<>> THEN <<>> ELSE <<":">> \o u.port),
     host |-> u.host, port |-> u.port,
     username |-> IF u.auth = <<>> THEN <<>> ELSE <<u.auth[1]>>,
     password |-> IF Len(u.auth) = 3 THEN <<u.auth[3]>> ELSE <<>>,
     path |-> u.path,
     options |-> QueryOptions(u.query)]

\* C25: whenever create_source or create_destination, given a URI string of
\* a registered scheme, calls the constructor, it calls it with the
\* normalized record of that URI; and for a URI of the simple form
\* scheme:path, source or destination, the scheme and the path that
\* come out of the parse are the ones written.
C25_ConstructorGetsRecord ==
    (pure.f \in {"create_source", "create_destination"} /\ pure.res # CreatePending)
        => /\ pure.res.call.form # "none" =>
                 /\ pure.res.call.form = "record"
                 /\ pure.res.call.record = NormalizedRecord(pure.uri)
           /\ pure.uri.simple =>
                 /\ pure.res.parsed.scheme = pure.uri.scheme
                 /\ pure.res.parsed.path = pure.uri.path

(***************************************************************************)
(* Properties of the opening and closing of a route's connectors (Spec).   *)
(***************************************************************************)
\* C27: a supervisor that is in a receive has its route's source open, and
\* one that is in a send has its route's destination open: both were opened
\* before the first receive.
C27_OpenBeforeUse ==
    \A r \in AllRoutes : \A t \in 1..Len(tasks[r]) :
        /\ tasks[r][t].pc = "recv" => conn[r].src.opens > 0
        /\ tasks[r][t].pc \in {"send", "hsend"} =>
              conn[r].src.opens > 0 /\ conn[r].dst.opens > 0

\* C28: stop closes the destination after it has awaited the supervisor and
\* the source after the destination: while a stop call is still awaiting
\* the supervisor, where the destination's close has not been called yet,
\* no step closes the source.
C28_SourceClosedLast ==
    [][\A r \in AllRoutes :
          (stopCall[r].pc = "await" /\ conn[r].src.open) => conn'[r].src.open]_vars

\* C29: an error raised by a close during stop, in the explicit disconnect
\* calls or in the cancelled supervisor's release of the source, does not
\* leave stop: no stop call ends by raising, and when the supervisor's
\* release of the source raised, stop still goes on to its disconnect calls.
C29_CloseErrorsContained ==
    \A r \in AllRoutes :
        /\ stopCall[r].res # "raised"
        /\ (/\ stopCall[r].pc = "await"
            /\ TaskDone(r, stopCall[r].t)
            /\ tasks[r][stopCall[r].t].cause = "close")
              => ENABLED (Route_stop_await(r) /\ stopCall'[r].pc = "disc")

(***************************************************************************)
(* Properties of Route.process on a chain of processors (ChainSpec).       *)
(***************************************************************************)
\* C32: the processors are invoked in configured order, the first on the
\* received message and each later one on the output of the one before it;
\* once a processor has returned drop no later processor is invoked, the
\* chain yields drop and nothing is sent for the message.
C32_DropEndsChain ==
    pure.f = "chain" =>
        /\ \A k \in 1..Len(pure.calls) :
              /\ pure.calls[k].i = k
              /\ pure.calls[k].input =
                    IF k = 1 THEN Value(pure.data) ELSE pure.calls[k - 1].output
        /\ \A k \in 1..Len(pure.calls) :
              (pure.procs[k] = "drop") =>
                 /\ Len(pure.calls) = k
                 /\ pure.pc \in {"returned", "skipped"}
                 /\ pure.result.none
                 /\ pure.sent = <<>>

\* a chain of three whose second processor dropped the message: the third
\* was not invoked and the loop has passed its send
C32_Witness ==
    /\ pure.f = "chain"
    /\ Len(pure.procs) = 3
    /\ pure.procs[1] = "map" /\ pure.procs[2] = "drop"
    /\ Len(pure.calls) = 2
    /\ pure.calls[2].input = Value(<<0, 1>>)
    /\ pure.pc = "skipped"

(***************************************************************************)
(* Properties of Route._handle_error (HandlerSpec).                        *)
(***************************************************************************)
\* C33: the handlers are visited in declaration order, none skipped; no
\* exception of a handler leaves _handle_error; a handler whose execution
\* raised is logged and the handlers after it are still run; and the list is
\* never cut short by a log handler: when _handle_error has returned, every
\* handler was visited unless the last one visited is a retry handler whose
\* retry succeeded.
C33_HandlersAllRun ==
    pure.f = "handle_error" =>
        /\ \A k \in 1..Len(pure.visited) : pure.visited[k] = k
        /\ pure.pc # "escaped"
        /\ \A k \in 1..Len(pure.visited) :
              (pure.handlers[k] \in {"log_bad", "retry_bad"}) =>
                 /\ \E j \in 1..Len(pure.logged) : pure.logged[j] = k
                 /\ (k < Len(pure.handlers) /\ pure.pc = "returned") => Len(pure.visited) > k
        /\ (pure.pc = "returned" /\ Len(pure.visited) < Len(pure.handlers)) =>
              /\ Len(pure.visited) > 0
              /\ pure.handlers[Len(pure.visited)] = "retry"
              /\ pure.ret

\* a log handler whose execution raised, followed by a log handler that ran
C33_Witness ==
    /\ pure.f = "handle_error"
    /\ pure.handlers = <<"log_bad", "log">>
    /\ pure.pc = "returned"
    /\ pure.logged = <<1>>
    /\ pure.visited = <<1, 2>>
    /\ pure.handled

(***************************************************************************)
(* Properties of the FilterProcessor with a condition (CondSpec).          *)
(***************************************************************************)
\* the field names a condition refers to
RECURSIVE NamesOf(_)
NamesOf(e) ==
    CASE e.op = "name" -> {e.n}
      [] e.op \in {"gt", "not"} -> NamesOf(e.a)
      [] e.op \in {"or", "and"} -> NamesOf(e.a) \cup NamesOf(e.b)
      [] OTHER -> {}

\* the fields of message m that have a scalar value
ScalarFields(m) == { n \in DOMAIN m.fields : IsScalar(m.fields[n]) }

\* the condition, an expression, evaluates to true over all the fields of m
EvaluatesTrue(c, m) ==
    /\ m.kind = "dict"
    /\ c.op \notin {"blank", "syntax"}
    /\ LET q == Eval(c, m.fields) IN ~q.exc /\ Truthy(q.v)

\* C34: with a condition set, process returns the message if and only if
\* the condition evaluates to true and every field it refers to is a scalar
\* field of the message; a condition that refers to a missing or non-scalar
\* field is dropped, as is one whose evaluation fails.
C34_PassIffConditionTrue ==
    (pure.f = "condition" /\ pure.res # "pending")
        => (pure.res = "pass" <=>
                /\ EvaluatesTrue(pure.condition, pure.message)
                /\ NamesOf(pure.condition) \subseteq ScalarFields(pure.message))

\* C34, amended: with a condition set, process returns the message if and
\* only if the condition is blank, or it evaluates to true and every field
\* its evaluation reads is a scalar field of the message; an evaluation that
\* reads a missing or non-scalar field, or fails in another way, drops the
\* message.
C34_PassIffEvaluationTrue ==
    (pure.f = "condition" /\ pure.res # "pending")
        => (pure.res = "pass" <=>
                \/ pure.condition.op = "blank"
                \/ /\ EvaluatesTrue(pure.condition, pure.message)
                   /\ Eval(pure.condition, pure.message.fields).reads
                         \subseteq ScalarFields(pure.message))

\* "value > 10 or other" passed on a message whose value is 15, and was
\* dropped on one whose value is 5 and whose other is a list
C34_Witness ==
    /\ pure.f = "condition"
    /\ pure.condition.op = "or"
    /\ pure.condition.b.op = "name"
    /\ "other" \in DOMAIN pure.message.fields
    /\ pure.message.fields["other"].kind = "list"
    /\ "value" \in DOMAIN pure.message.fields
    /\ pure.message.fields["value"] = PyVal("int", 5)
    /\ pure.res = "drop"

(***************************************************************************)
(* Properties of the sum strategy (SumSpec).                               *)
(***************************************************************************)
\* the number an item stands for, 0 for an item that stands for none
NumericValue(x) == IF x.kind \in {"int", "float", "bool", "numstr"} THEN x.v ELSE 0

\* C35: the result of the sum strategy is the sum of the numeric values of
\* the buffered items, every item that is no number counting as zero,
\* whatever its type (for buffers whose numbers a float can hold).
C35_SumOfNumericItems ==
    (/\ pure.f = "sum" /\ pure.done
     /\ \A i \in 1..Len(pure.buffer) : pure.buffer[i].kind # "hugeint")
        => /\ pure.res.raised = "none"
           /\ pure.res.v = SeqSum([i \in 1..Len(pure.buffer) |-> NumericValue(pure.buffer[i])])

\* C37: the disconnect calls of a stop call never close the source of a
\* route whose running flag is true (a route started again while that stop
\* call was still awaiting the cancelled supervisor).
C37_NoCloseWhileRunning ==
    [][\A r \in AllRoutes :
          (running[r] /\ stopCall[r].pc = "disc" /\ conn[r].src.open)
             => (stopCall'[r].pc = "disc" \/ conn'[r].src.open)]_vars

(***************************************************************************)
(* Properties of the engine's shutdown (EngineSpec).                       *)
(***************************************************************************)
\* C36: once engine.start() has returned, no stop call is still stopping
\* routes, and every route of the engine is fully stopped: its flag is
\* clear, no supervisor task of it is live, no stop call of it is in flight
\* and its source is closed.
C36_StartReturnsStopped ==
    eng.main = "done" =>
        /\ eng.stopIdx = 0
        /\ \A r \in LoadedRoutes :
              /\ ~running[r]
              /\ Live(r) = {}
              /\ stopCall[r].pc = "idle"
              /\ ~conn[r].src.open

(***************************************************************************)
(* Properties of the child of an ExternalProcessor (ExtSpec).              *)
(***************************************************************************)
\* C40: once a call of ExternalProcessor.process has returned or has been
\* cancelled, the child process it spawned is no longer running
C40_NoOrphanedChild ==
    \A i \in 1..Len(ext.calls) :
        ext.calls[i].pc = "done" => ext.calls[i].child # "running"

(***************************************************************************)
(* Properties of the flush callback of an AggregateProcessor (AggSpec).    *)
(***************************************************************************)
\* C39: with a flush callback registered, every flush of a non-empty buffer
\* runs the callback to completion with exactly the flushed items, a flush
\* made by the deferred timer task included
C39_CallbackCompletes ==
    agg.cb # "none" =>
        \A i \in 1..Len(aggLog) :
            /\ aggLog[i].items # <<>>
            /\ aggLog[i].cb = "done"

(***************************************************************************)
(* Properties of a stopped route (StopSpec).                               *)
(***************************************************************************)
\* a call of stop() has returned, none is in flight and start() has not been
\* called since
Stopped(r) ==
    /\ ~running[r]
    /\ stopCall[r].pc = "idle"
    /\ stopCall[r].res \in {"ok", "raised", "noop"}

\* C38: after Route.stop has returned, and until start is called again,
\* destination.send is not invoked for the route, whether by the cancelled
\* supervisor, a safe-send retry, an error handler or the Aggregate timer
C38_NoSendAfterStop ==
    [][\A r \in AllRoutes : Stopped(r) => Sends(r)' = Sends(r)]_vars

\* stop() has returned on a route whose supervisor was cancelled, with a
\* message in the buffer of the AggregateProcessor and its timer still pending
C38_Witness ==
    \E r \in AllRoutes :
        /\ Stopped(r)
        /\ stopCall[r].res = "ok"
        /\ \E t \in 1..Len(tasks[r]) : tasks[r][t].outcome = "cancelled"
        /\ agg.buffer # <<>>
        /\ agg.ft = "pending"

====
